---- MODULE Spec2Model ----
(***************************************************************************)
(* A model of the PMI metric engine of court-vision (backend/scrapers):    *)
(* the z-score normalizer of the three engine generations, the era         *)
(* deflator, the position interpolation, the defensive-stat imputer and    *)
(* the career aggregation.                                                  *)
(*                                                                         *)
(* Numbers.  Python floats are modelled as fixed-point integers in units   *)
(* of 1/Scale (Scale = 10^4, the resolution of round(x, 4)).  A Python     *)
(* value is a record [t, n]: t = "num" carries the fixed-point number n,   *)
(* t = "none" is None, t = "nan" is float('nan'), t = "raise" is an        *)
(* exception escaping the call.  Arithmetic on "nan" yields "nan", and     *)
(* every comparison with "nan" is false, as in IEEE 754 / Python.          *)
(***************************************************************************)
EXTENDS Integers, Sequences, FiniteSets, TLC

ScaleDigits == 4
Scale == 10 ^ ScaleDigits

Num(n) == [t |-> "num", n |-> n]
None == [t |-> "none", n |-> 0]
NaN == [t |-> "nan", n |-> 0]
Raise == [t |-> "raise", n |-> 0]

IsNum(x) == x.t = "num"
\* pd.isna(x): None and NaN are both "missing"
IsNA(x) == x.t \in {"none", "nan"}

Abs(i) == IF i < 0 THEN -i ELSE i

\* the elements of a list
Range(s) == {s[i] : i \in DOMAIN s}

\* a / b on integers, rounded to the nearest integer (b # 0)
DivRound(a, b) ==
    LET q == Abs(a) \div Abs(b)
        r == Abs(a) % Abs(b)
        m == IF 2 * r >= Abs(b) THEN q + 1 ELSE q
    IN  IF (a < 0) # (b < 0) THEN -m ELSE m

\* the fixed-point quotient a / b (a, b in units of 1/Scale, b # 0)
ScaledDiv(a, b) ==
    LET qa == Abs(a) \div Abs(b)
        ra == Abs(a) % Abs(b)
        q  == qa * Scale + DivRound(ra * Scale, Abs(b))
    IN  IF (a < 0) # (b < 0) THEN -q ELSE q

\* the fixed-point product a * b (the whole and the fractional part of a apart)
ScaledMul(a, b) ==
    LET ah == Abs(a) \div Scale
        al == Abs(a) % Scale
        m  == ah * Abs(b) + DivRound(al * Abs(b), Scale)
    IN  IF (a < 0) # (b < 0) THEN -m ELSE m

\* Python float subtraction: NaN propagates
FSub(a, b) == IF a.t = "nan" \/ b.t = "nan" THEN NaN ELSE Num(a.n - b.n)

\* Python float division a / b: NaN propagates, a zero divisor raises
FDiv(a, b) ==
    IF a.t = "nan" \/ b.t = "nan" THEN NaN
    ELSE IF b.n = 0 THEN Raise
    ELSE Num(ScaledDiv(a.n, b.n))

\* a < b on floats: false when either side is NaN
FLt(a, b) == a.t = "num" /\ b.t = "num" /\ a.n < b.n

\* Python's builtin min(a, b) / max(a, b): the first argument is kept unless
\* the second compares strictly smaller / greater
PyMin(a, b) == IF FLt(b, a) THEN b ELSE a
PyMax(a, b) == IF FLt(a, b) THEN b ELSE a

\* round(x, 2) of a fixed-point number: to a multiple of Scale/100, ties to even
Round2(n) ==
    LET u == Scale \div 100
        q == Abs(n) \div u
        r == Abs(n) % u
        up == (2 * r > u) \/ (2 * r = u /\ q % 2 = 1)
        m == (IF up THEN q + 1 ELSE q) * u
    IN  IF n < 0 THEN -m ELSE m

(***************************************************************************)
(* State.  Each component below is exercised by a specification of its    *)
(* own; the variables of the other components then keep their idle value.  *)
(***************************************************************************)
VARIABLES
    z_gen,      \* the generation whose _z was called ("-" before the call)
    z_val,      \* _z argument val
    z_mean,     \* _z argument mean
    z_std,      \* _z argument std
    z_out,      \* what the call returned (None before the call)
    era_pc,     \* "input" before _get_era_deflators is called, "done" after
    era_season,   \* its argument season_year
    era_out,    \* the deflators it returned
    pw_gen,     \* the generation whose position weight was resolved
    pw_stat,    \* the stat whose weight is resolved
    pw_p1,      \* a position (pos_num)
    pw_p2,      \* another position
    pw_w1,      \* the weight of pw_stat at pw_p1
    pw_w2,      \* the weight of pw_stat at pw_p2
    imp,        \* the DefensiveStatImputer object
    imp_op,     \* the last call on it: "new", "train" or "predict"
    imp_df,     \* the frame given to that train
    imp_sklearn,\* whether scikit-learn could be imported by that train
    imp_row,    \* the row given to that predict
    imp_X,      \* the feature vector that predict handed to the models
    imp_ret,    \* what the call returned
    imp_calls,  \* the number of calls so far
    car_gen,    \* the generation that scores the career ("-": none)
    car_seasons,\* the seasons played so far, each a dict [pmi, gp, mpg]
    car_total_gp,    \* v1 compute_career_pmi argument total_gp
    car_playoff,     \* compute_career_pmi argument is_playoff
    car_league_mean, \* v1 compute_career_pmi argument league_mean
    car_last,   \* the last compute_career_pmi call: its seasons and result
    car_prev,   \* the call before that one
    call_pc,    \* "input" before the function under study is called, "done" after
    call_fn,    \* the function under study
    call_args,  \* its arguments
    call_out,   \* what it returned (None before the call)
    run_mode,   \* run_ingestion: "full", or "recompute" from the cache files
    run_pc,     \* the step run_ingestion is at
    run_rows,   \* the season rows of the players dict
    run_corpus, \* the frame run_imputer builds of the modern rows
    run_sklearn,\* whether scikit-learn can be imported
    run_imp,    \* the DefensiveStatImputer of run_imputer
    run_i,      \* run_imputer: the row its prediction loop is at
    run_cnt,    \* run_imputer: cnt
    run_log,    \* the calls made so far, in order
    run_cache,  \* the season rows in _cached_players.json (<<>>: no file)
    run_full,   \* the season rows the full run ended with, for a recompute run after it
    eng_pc, \* the engine session: "idle" or "run"
    eng_tables, \* the module-level coefficient tables
    eng_row, \* the row dict every call is given
    eng_league, \* the league_stats dict every call is given
    eng_pos, \* pos_num
    eng_log, \* the calls made so far, with what they were given and returned
    api_gen, \* the wrapper called: "_api", "_safe_api_call" or "-"
    api_pc, \* "idle", "enter", "loop" or "returned"
    api_retries, \* its retries argument
    api_delay, \* its delay argument
    api_kwargs, \* the keyword arguments, as the caller gave them and then as func gets them
    api_attempt, \* the loop variable
    api_outcomes, \* how each call of func ended: "ok" or "raise"
    api_slept, \* the seconds slept so far
    api_result, \* what the wrapper returned
    mrg_pc, \* "idle" or "run"
    mrg_players, \* _cached_players.json
    mrg_sd, \* _cached_season_data.json
    mrg_hist, \* historical_players.json, or NoFile
    mrg_hist_seasons, \* historical_seasons.json
    mrg_out \* the two cache files at the start and as each run of the merge left them

zvars == <<z_gen, z_val, z_mean, z_std, z_out>>
eravars == <<era_pc, era_season, era_out>>
pwvars == <<pw_gen, pw_stat, pw_p1, pw_p2, pw_w1, pw_w2>>
impvars == <<imp, imp_op, imp_df, imp_sklearn, imp_row, imp_X, imp_ret, imp_calls>>
carvars ==
    <<car_gen, car_seasons, car_total_gp, car_playoff, car_league_mean, car_last, car_prev>>

callvars == <<call_pc, call_fn, call_args, call_out>>

runvars ==
    <<run_mode, run_pc, run_rows, run_corpus, run_sklearn, run_cache, run_full, run_imp, run_i, run_cnt, run_log,
      run_cache, run_full>>

engvars == <<eng_pc, eng_tables, eng_row, eng_league, eng_pos, eng_log>>

apivars == <<api_gen, api_pc, api_retries, api_delay, api_kwargs, api_attempt, api_outcomes, api_slept, api_result>>

mrgvars == <<mrg_pc, mrg_players, mrg_sd, mrg_hist, mrg_hist_seasons, mrg_out>>

vars == <<zvars, eravars, pwvars, impvars, carvars, callvars, runvars, engvars, apivars, mrgvars>>

\* what a step of one component leaves alone
NotZ == <<eravars, pwvars, impvars, carvars, callvars, runvars, engvars, apivars, mrgvars>>
NotEra == <<zvars, pwvars, impvars, carvars, callvars, runvars, engvars, apivars, mrgvars>>
NotPw == <<zvars, eravars, impvars, carvars, callvars, runvars, engvars, apivars, mrgvars>>
NotImp == <<zvars, eravars, pwvars, carvars, callvars, runvars, engvars, apivars, mrgvars>>
NotCar == <<zvars, eravars, pwvars, impvars, callvars, runvars, engvars, apivars, mrgvars>>
NotCall == <<zvars, eravars, pwvars, impvars, carvars, runvars, engvars, apivars, mrgvars>>
NotRun == <<zvars, eravars, pwvars, impvars, carvars, callvars, engvars, apivars, mrgvars>>
NotEng == <<zvars, eravars, pwvars, impvars, carvars, callvars, runvars, apivars, mrgvars>>
NotApi == <<zvars, eravars, pwvars, impvars, carvars, callvars, runvars, engvars, mrgvars>>
NotMrg == <<zvars, eravars, pwvars, impvars, carvars, callvars, runvars, engvars, apivars>>

(***************************************************************************)
(* The z-score normalizer, one per engine generation.                      *)
(***************************************************************************)
CLAMP_V1 == 3 * Scale
CLAMP_V23 == (7 * Scale) \div 2
\* v3 treats every std below 0.001 as degenerate
STD_FLOOR_V3 == Scale \div 1000

\* clamp as the code writes it: max(-c, min(c, q))
ClampPy(c, q) == PyMax(Num(-c), PyMin(Num(c), q))

\* Z_v1 without the clamp
Z_v1_unclamped(val, mean, std) ==
    IF (IsNum(std) /\ std.n = 0) \/ IsNA(val) \/ IsNA(mean) THEN Num(0)
    ELSE IF std.t = "none" THEN Raise
    ELSE FDiv(FSub(val, mean), std)

\* pmi_engine._z
Z_v1(val, mean, std) ==
    IF (IsNum(std) /\ std.n = 0) \/ IsNA(val) \/ IsNA(mean) THEN Num(0)
    ELSE IF std.t = "none" THEN Raise
    ELSE LET q == FDiv(FSub(val, mean), std)
         IN  IF q.t = "raise" THEN Raise ELSE ClampPy(CLAMP_V1, q)

\* Z_v2 without the std == 0 test
Z_v2_nozerotest(val, mean, std) ==
    IF val.t = "none" \/ mean.t = "none" THEN Num(0)
    ELSE IF val.t = "nan" THEN Num(0)
    ELSE IF std.t = "none" THEN Raise
    ELSE LET q == FDiv(FSub(val, mean), std)
         IN  IF q.t = "raise" THEN Raise ELSE ClampPy(CLAMP_V23, q)

\* pmi_v2_engine._z
Z_v2(val, mean, std) ==
    IF (IsNum(std) /\ std.n = 0) \/ val.t = "none" \/ mean.t = "none" THEN Num(0)
    ELSE IF val.t = "nan" THEN Num(0)
    ELSE IF std.t = "none" THEN Raise
    ELSE LET q == FDiv(FSub(val, mean), std)
         IN  IF q.t = "raise" THEN Raise ELSE ClampPy(CLAMP_V23, q)

\* pmi_v3_engine._z
Z_v3(val, mean, std) ==
    IF std.t = "none" \/ (IsNum(std) /\ std.n = 0) \/ val.t = "none" \/ mean.t = "none"
    THEN Num(0)
    ELSE IF val.t = "nan" \/ mean.t = "nan" \/ FLt(std, Num(STD_FLOOR_V3)) THEN Num(0)
    ELSE LET q == FDiv(FSub(val, mean), std)
         IN  IF q.t = "raise" THEN Raise ELSE ClampPy(CLAMP_V23, q)

ClampOf(gen) == IF gen = "v1" THEN CLAMP_V1 ELSE CLAMP_V23

\* inputs of the normalizer: multiples of 1.25 up to MaxVal of them, and the
\* missing values
MaxVal == 3
ZFinite == {k * ((5 * Scale) \div 4) : k \in -MaxVal..MaxVal}
ZVals == {Num(n) : n \in ZFinite} \cup {None, NaN}
ZMeans == {Num(0), Num(2 * Scale), None, NaN}
ZStds == {Num(0), Num(-Scale), Num(5), Num(STD_FLOOR_V3), Num(Scale \div 2),
          Num(5 * Scale), None, NaN}

ZIdle ==
    /\ z_gen = "-" /\ z_val = None /\ z_mean = None /\ z_std = None /\ z_out = None

CallZ_v1 ==
    /\ z_gen = "-"
    /\ z_gen' = "v1"
    /\ z_out' = Z_v1(z_val, z_mean, z_std)
    /\ UNCHANGED <<z_val, z_mean, z_std, NotZ>>

CallZ_v2 ==
    /\ z_gen = "-"
    /\ z_gen' = "v2"
    /\ z_out' = Z_v2(z_val, z_mean, z_std)
    /\ UNCHANGED <<z_val, z_mean, z_std, NotZ>>

CallZ_v3 ==
    /\ z_gen = "-"
    /\ z_gen' = "v3"
    /\ z_out' = Z_v3(z_val, z_mean, z_std)
    /\ UNCHANGED <<z_val, z_mean, z_std, NotZ>>

(***************************************************************************)
(* The era deflator of v3.                                                 *)
(***************************************************************************)
\* sorted(_ERA_LEAGUE_AVGS.keys())
ERA_KEYS == <<1946, 1955, 1960, 1974, 1978, 1982, 1986, 1990, 1994, 1997,
              2000, 2005, 2010, 2015, 2020, 2024>>

EraRow(stl, blk, trb) == [stl |-> stl, blk |-> blk, trb |-> trb]
\* hundredths to fixed point
H(c) == Num(c * (Scale \div 100))

\* _ERA_LEAGUE_AVGS: the stl, blk and trb averages (ppg and apg are not read)
ERA_LEAGUE_AVGS ==
    (1946 :> EraRow(None, None, H(800))) @@
    (1955 :> EraRow(None, None, H(950))) @@
    (1960 :> EraRow(None, None, H(1000))) @@
    (1974 :> EraRow(H(114), H(72), H(550))) @@
    (1978 :> EraRow(H(120), H(70), H(530))) @@
    (1982 :> EraRow(H(114), H(66), H(500))) @@
    (1986 :> EraRow(H(106), H(62), H(480))) @@
    (1990 :> EraRow(H(101), H(57), H(450))) @@
    (1994 :> EraRow(H(96), H(52), H(430))) @@
    (1997 :> EraRow(H(90), H(50), H(420))) @@
    (2000 :> EraRow(H(78), H(45), H(420))) @@
    (2005 :> EraRow(H(75), H(48), H(420))) @@
    (2010 :> EraRow(H(72), H(48), H(420))) @@
    (2015 :> EraRow(H(72), H(48), H(420))) @@
    (2020 :> EraRow(H(70), H(47), H(430))) @@
    (2024 :> EraRow(H(72), H(47), H(430)))

REF_ERA == EraRow(H(72), H(48), H(420))

\* the loop "for ey in era_keys: if season_year >= ey: era_year = ey"
RECURSIVE EraScan(_, _, _)
EraScan(i, era_year, season_year) ==
    IF i > Len(ERA_KEYS) THEN era_year
    ELSE EraScan(i + 1,
                 IF season_year >= ERA_KEYS[i] THEN ERA_KEYS[i] ELSE era_year,
                 season_year)

\* the bracket whose start year is nearest to season_year, before or after it
EraBracket_nearest(season_year) ==
    CHOOSE b \in Range(ERA_KEYS) :
        \A c \in Range(ERA_KEYS) :
            \/ Abs(season_year - b) < Abs(season_year - c)
            \/ (Abs(season_year - b) = Abs(season_year - c) /\ b <= c)

\* era_keys[0], then the loop
EraBracket(season_year) == EraScan(1, ERA_KEYS[1], season_year)

\* the deflators without min(1.0, ...)
GetEraDeflators_nomin(season_year) ==
    LET era == ERA_LEAGUE_AVGS[EraBracket(season_year)]
        D(stat) == IF era[stat].t # "none" /\ REF_ERA[stat].t # "none" /\ era[stat].n > 0
                   THEN FDiv(REF_ERA[stat], era[stat]).n
                   ELSE Scale
        trb == IF era.trb.n > ScaledMul(REF_ERA.trb.n, (105 * Scale) \div 100)
               THEN FDiv(REF_ERA.trb, era.trb).n
               ELSE Scale
    IN  [stl |-> D("stl"), blk |-> D("blk"), trb |-> trb]

\* pmi_v3_engine._get_era_deflators
GetEraDeflators(season_year) ==
    LET era == ERA_LEAGUE_AVGS[EraBracket(season_year)]
        D(stat) == IF era[stat].t # "none" /\ REF_ERA[stat].t # "none" /\ era[stat].n > 0
                   THEN PyMin(Num(Scale), FDiv(REF_ERA[stat], era[stat])).n
                   ELSE Scale
        trb == IF era.trb.n > ScaledMul(REF_ERA.trb.n, (105 * Scale) \div 100)
               THEN PyMin(Num(Scale), FDiv(REF_ERA.trb, era.trb)).n
               ELSE Scale
    IN  [stl |-> D("stl"), blk |-> D("blk"), trb |-> trb]

\* season start years given to the deflator
FirstYear == 1940
LastYear == 2030

NoDeflators == [stl |-> 0, blk |-> 0, trb |-> 0]

EraIdle ==
    /\ era_pc = "idle" /\ era_season = 0 /\ era_out = NoDeflators

CallEraDeflators ==
    /\ era_pc = "input"
    /\ era_pc' = "done"
    /\ era_out' = GetEraDeflators(era_season)
    /\ UNCHANGED <<era_season, NotEra>>

(***************************************************************************)
(* Position interpolation and the position-resolved weights.               *)
(***************************************************************************)
\* pmi_engine: the coefficient tables
W_GUARD == [z_pts |-> 12000, ts_diff |-> 70000, z_ast |-> 7500, z_tov |-> -5500,
            z_orb |-> 1500, z_fta |-> 1000, z_fg3m |-> 1000]
W_CENTER == [z_pts |-> 9500, ts_diff |-> 70000, z_ast |-> 3500, z_tov |-> -4000,
             z_orb |-> 5000, z_fta |-> 1000, z_fg3m |-> 0]
W_DPMI_GUARD == [z_stl |-> 7000, z_blk |-> 2000, z_drb |-> 3500, z_pf |-> -1500]
W_DPMI_CENTER == [z_stl |-> 3000, z_blk |-> 7500, z_drb |-> 5000, z_pf |-> -1000]

\* dict.get(k, 0)
Get0(d, k) == IF k \in DOMAIN d THEN d[k] ELSE 0

\* _pos_interp (the same in the three generations): max(0, min(1, (pos - 1) / 4))
PosInterp(pos_num) ==
    PyMax(Num(0), PyMin(Num(Scale), Num(DivRound(pos_num - Scale, 4)))).n

\* pmi_engine._interp_weights
InterpWeights(guard_w, center_w, t) ==
    [k \in (DOMAIN guard_w) \cup (DOMAIN center_w) |->
        DivRound((Scale - t) * Get0(guard_w, k) + t * Get0(center_w, k), Scale)]

\* the weight v1 gives a stat at a position: compute_dpmi reads the DPMI tables,
\* compute_opmi (regular season) the offensive ones
V1Key == [pts |-> "z_pts", ast |-> "z_ast", tov |-> "z_tov", orb |-> "z_orb",
          stl |-> "z_stl", blk |-> "z_blk", drb |-> "z_drb", pf |-> "z_pf"]

PosWeight_v1(stat, pos_num) ==
    LET t == PosInterp(pos_num)
    IN  IF V1Key[stat] \in DOMAIN W_DPMI_GUARD
        THEN InterpWeights(W_DPMI_GUARD, W_DPMI_CENTER, t)[V1Key[stat]]
        ELSE InterpWeights(W_GUARD, W_CENTER, t)[V1Key[stat]]

\* pmi_v2_engine: _RAW_WEIGHTS, normalised so that the largest is 1.0
RAW_WEIGHTS_V2 == [pts |-> 7008, ast |-> 3846, stl |-> 13571, blk |-> 6475,
                   drb |-> 3444, orb |-> 1398, tov |-> -9347, pf |-> -5153]
MaxAbs(d) == CHOOSE m \in {Abs(d[k]) : k \in DOMAIN d} :
                \A k \in DOMAIN d : Abs(d[k]) <= m
WEIGHTS_V2 == [k \in DOMAIN RAW_WEIGHTS_V2 |->
                  ScaledDiv(RAW_WEIGHTS_V2[k], MaxAbs(RAW_WEIGHTS_V2))]
\* (guard_mult, center_mult)
POS_ADJUSTMENTS_V2 == [stl |-> <<11000, 9000>>, blk |-> <<8500, 11500>>,
                       ast |-> <<10800, 9200>>, orb |-> <<9000, 11000>>,
                       drb |-> <<9500, 10500>>]

\* pmi_v3_engine: BPM weights, RAPTOR/EPM adjustments, normalised to pts = 1.0
BPM_WEIGHTS == [pts |-> 7008, ast |-> 3846, stl |-> 13571, blk |-> 6475,
                drb |-> 3444, orb |-> 1398, tov |-> -9347, pf |-> -5153]
ADJUSTMENTS_V3 == [stl |-> ScaledDiv(5500, 13571), blk |-> ScaledDiv(2600, 6475),
                   drb |-> ScaledDiv(1700, 3444), orb |-> ScaledDiv(2100, 1398),
                   tov |-> ScaledDiv(6000, 9347)]
ADJUSTED_WEIGHTS_V3 ==
    [k \in DOMAIN BPM_WEIGHTS |->
        ScaledMul(BPM_WEIGHTS[k],
                  IF k \in DOMAIN ADJUSTMENTS_V3 THEN ADJUSTMENTS_V3[k] ELSE Scale)]
WEIGHTS_V3 == [k \in DOMAIN BPM_WEIGHTS |->
                  ScaledDiv(ADJUSTED_WEIGHTS_V3[k], Abs(ADJUSTED_WEIGHTS_V3["pts"]))]
POS_ADJUSTMENTS_V3 == [stl |-> <<11000, 9000>>, blk |-> <<13000, 8500>>,
                       ast |-> <<10500, 9500>>, orb |-> <<11500, 9000>>,
                       drb |-> <<9500, 10500>>]

\* _get_pos_weight of v2 and v3, over the generation's tables
GetPosWeight(weights, adjustments, stat, pos_num) ==
    LET base == Get0(weights, stat)
    IN  IF stat \notin DOMAIN adjustments THEN base
        ELSE LET guard_m == adjustments[stat][1]
                 center_m == adjustments[stat][2]
                 t == PosInterp(pos_num)
                 mult == DivRound((Scale - t) * guard_m + t * center_m, Scale)
             IN  ScaledMul(base, mult)

PosWeight_v2(stat, pos_num) == GetPosWeight(WEIGHTS_V2, POS_ADJUSTMENTS_V2, stat, pos_num)
PosWeight_v3(stat, pos_num) == GetPosWeight(WEIGHTS_V3, POS_ADJUSTMENTS_V3, stat, pos_num)

Stats == {"pts", "ast", "tov", "orb", "stl", "blk", "drb", "pf"}
\* the stats the coefficient tables skew toward centers
CenterStats == {"blk", "orb", "drb"}

\* positions in half steps, 0.5 .. MaxHalfPos / 2
MaxHalfPos == 11
Positions == {k * (Scale \div 2) : k \in 1..MaxHalfPos}

PwIdle ==
    /\ pw_gen = "-" /\ pw_stat = "-" /\ pw_p1 = 0 /\ pw_p2 = 0 /\ pw_w1 = 0 /\ pw_w2 = 0

ResolveWeight_v1 ==
    /\ pw_gen = "-"
    /\ pw_gen' = "v1"
    /\ pw_w1' = PosWeight_v1(pw_stat, pw_p1)
    /\ pw_w2' = PosWeight_v1(pw_stat, pw_p2)
    /\ UNCHANGED <<pw_stat, pw_p1, pw_p2, NotPw>>

ResolveWeight_v2 ==
    /\ pw_gen = "-"
    /\ pw_gen' = "v2"
    /\ pw_w1' = PosWeight_v2(pw_stat, pw_p1)
    /\ pw_w2' = PosWeight_v2(pw_stat, pw_p2)
    /\ UNCHANGED <<pw_stat, pw_p1, pw_p2, NotPw>>

ResolveWeight_v3 ==
    /\ pw_gen = "-"
    /\ pw_gen' = "v3"
    /\ pw_w1' = PosWeight_v3(pw_stat, pw_p1)
    /\ pw_w2' = PosWeight_v3(pw_stat, pw_p2)
    /\ UNCHANGED <<pw_stat, pw_p1, pw_p2, NotPw>>

(***************************************************************************)
(* Strings.  A Python string is a sequence of one-character strings; a    *)
(* value that is meant to be a string is a record [k, s]: k = "str" with  *)
(* the characters s, k = "none" for None, k = "nan" for float('nan').     *)
(***************************************************************************)
Str(s) == [k |-> "str", s |-> s]
NoStr == [k |-> "none", s |-> <<>>]
NanStr == [k |-> "nan", s |-> <<>>]

LOWER == << "a", "b", "c", "d", "e", "f", "g", "h", "i", "j", "k", "l", "m",
            "n", "o", "p", "q", "r", "s", "t", "u", "v", "w", "x", "y", "z" >>
UPPER == << "A", "B", "C", "D", "E", "F", "G", "H", "I", "J", "K", "L", "M",
            "N", "O", "P", "Q", "R", "S", "T", "U", "V", "W", "X", "Y", "Z" >>
DIGITS == << "0", "1", "2", "3", "4", "5", "6", "7", "8", "9" >>

\* the least i with seq[i] = c, 0 when there is none
Find(seq, c) ==
    IF \E i \in 1..Len(seq) : seq[i] = c
    THEN CHOOSE i \in 1..Len(seq) : seq[i] = c /\ \A j \in 1..(i - 1) : seq[j] # c
    ELSE 0

\* str.upper()
StrUpper(s) ==
    [i \in 1..Len(s) |-> IF Find(LOWER, s[i]) > 0 THEN UPPER[Find(LOWER, s[i])] ELSE s[i]]

\* str.strip(): from the first to the last character that is not a blank
StrStrip(s) ==
    LET solid == {i \in 1..Len(s) : s[i] # " "}
    IN  IF solid = {} THEN <<>>
        ELSE SubSeq(s, CHOOSE i \in solid : \A j \in solid : i <= j,
                       CHOOSE i \in solid : \A j \in solid : i >= j)

\* s.split(sep)[0]
SplitHead(s, sep) == IF Find(s, sep) > 0 THEN SubSeq(s, 1, Find(s, sep) - 1) ELSE s

\* sep.join(s.split(sep)[1:]), for a string that contains sep
SplitRest(s, sep) == SubSeq(s, Find(s, sep) + 1, Len(s))

\* the number a string of digits writes
RECURSIVE DigitsVal(_)
DigitsVal(s) ==
    IF s = <<>> THEN 0
    ELSE 10 * DigitsVal(SubSeq(s, 1, Len(s) - 1)) + (Find(DIGITS, s[Len(s)]) - 1)

\* int(s): surrounding blanks and one leading "+" are accepted, anything
\* else than digits raises ValueError (ok = FALSE)
ParseInt(s) ==
    LET t == StrStrip(s)
        u == IF t # <<>> /\ Head(t) = "+" THEN Tail(t) ELSE t
    IN  IF u # <<>> /\ \A i \in 1..Len(u) : Find(DIGITS, u[i]) > 0
        THEN [ok |-> TRUE, v |-> DigitsVal(u)]
        ELSE [ok |-> FALSE, v |-> 0]

(***************************************************************************)
(* Position encoding and height parsing.                                   *)
(***************************************************************************)
POS_DEFAULT == 3 * Scale

POS_MAP_V1 ==
    (<<"P", "G">> :> Scale) @@ (<<"S", "G">> :> 2 * Scale)
    @@ (<<"G">> :> (3 * Scale) \div 2) @@ (<<"S", "F">> :> 3 * Scale)
    @@ (<<"P", "F">> :> 4 * Scale) @@ (<<"F">> :> (7 * Scale) \div 2)
    @@ (<<"C">> :> 5 * Scale) @@ (<<"F", "C">> :> (9 * Scale) \div 2)
    @@ (<<"G", "F">> :> (5 * Scale) \div 2)

\* v2, v3 and the imputer add three full-word keys
POS_MAP ==
    POS_MAP_V1
    @@ (<<"G", "u", "a", "r", "d">> :> (3 * Scale) \div 2)
    @@ (<<"F", "o", "r", "w", "a", "r", "d">> :> (7 * Scale) \div 2)
    @@ (<<"C", "e", "n", "t", "e", "r">> :> 5 * Scale)

\* _pos_num answering 0 where the code answers the default
PosNum_zerodefault(pos_str, pos_map) ==
    IF pos_str.k # "str" \/ pos_str.s = <<>>
    THEN 0
    ELSE LET pos == SplitHead(SplitHead(StrUpper(StrStrip(pos_str.s)), "-"), "/")
         IN  IF pos \in DOMAIN pos_map THEN pos_map[pos] ELSE 0

\* _pos_num, over the position table of its module
PosNum(pos_str, pos_map) ==
    IF pos_str.k # "str" \/ pos_str.s = <<>>
    THEN POS_DEFAULT
    ELSE LET pos == SplitHead(SplitHead(StrUpper(StrStrip(pos_str.s)), "-"), "/")
         IN  IF pos \in DOMAIN pos_map THEN pos_map[pos] ELSE POS_DEFAULT

\* _height_to_inches: "6-9" is 81 inches, anything invalid is 0
HeightToInches(height_str) ==
    IF height_str.k # "str" \/ height_str.s = <<>>
    THEN 0
    ELSE LET s == StrStrip(height_str.s)
         IN  IF Find(s, "-") > 0
             THEN LET feet == ParseInt(SplitHead(s, "-"))
                      inch == ParseInt(SplitHead(SplitRest(s, "-"), "-"))
                  IN  IF feet.ok /\ inch.ok
                      THEN (feet.v * 12 + inch.v) * Scale
                      ELSE 0
             ELSE 0

(***************************************************************************)
(* The defensive-stat imputer (DefensiveStatImputer).                      *)
(***************************************************************************)
UNIVERSAL_FEATURES ==
    << "pos_num", "height_inches", "trb_pg", "pf_pg", "apg", "mpg", "ppg",
       "fga_pg", "league_fga_pg", "team_win_pct" >>
POST_73_FEATURES == << "orb_pg", "drb_pg", "tov_pg" >>
TRAINING_FEATURES == UNIVERSAL_FEATURES \o POST_73_FEATURES

\* a key a dict does not have
Absent == [t |-> "absent", n |-> 0]
AbsentStr == [k |-> "absent", s |-> <<>>]

\* dict.get(key, default), for a number and for a string
RowGet(row, key, default) == IF row[key].t = "absent" THEN default ELSE row[key]
RowGetStr(row, key, default) == IF row[key].k = "absent" THEN default ELSE row[key]

\* x or 0
OrZero(x) == IF x.t = "none" \/ x = Num(0) THEN Num(0) ELSE x

\* int(round(x)): to the nearest integer, ties to even
RoundInt(n) ==
    LET q == Abs(n) \div Scale
        r == Abs(n) % Scale
        up == (2 * r > Scale) \/ (2 * r = Scale /\ q % 2 = 1)
        m == IF up THEN q + 1 ELSE q
    IN  IF n < 0 THEN -m ELSE m

\* predict's table of typical heights by position, 78 for any other key
PosHeight(p) ==
    CASE p = 1 -> 74 [] p = 2 -> 77 [] p = 3 -> 79 [] p = 4 -> 81 [] p = 5 -> 83
      [] OTHER -> 78

\* the StandardScaler and Ridge objects of an imputer; None before training
NoScaler == [fitted |-> FALSE, mean |-> <<>>, scale |-> <<>>]
NoModel == [fitted |-> FALSE, coef |-> <<>>, intercept |-> 0]

\* DefensiveStatImputer.__init__
ImputerNew ==
    [ stl_model |-> NoModel, blk_model |-> NoModel,
      stl_scaler |-> NoScaler, blk_scaler |-> NoScaler,
      stl_cap |-> (7 * Scale) \div 2, blk_cap |-> (7 * Scale) \div 2,
      stl_r2 |-> None, blk_r2 |-> None,
      is_trained |-> FALSE ]

\* the features dict with the post-1973 features read from the row as well
PredictFeatures_allfromrow(player_row) ==
    LET base == [feat \in Range(TRAINING_FEATURES) |->
                    IF feat \in Range(TRAINING_FEATURES)
                    THEN LET val == RowGet(player_row, feat, Num(0))
                         IN  IF IsNA(val) THEN Num(0) ELSE val
                    ELSE Num(0)]
        trb == IF base["trb_pg"] = Num(0)
               THEN OrZero(RowGet(player_row, "rpg", Num(0)))
               ELSE base["trb_pg"]
        pos == IF base["pos_num"] = Num(0)
               THEN Num(PosNum(RowGetStr(player_row, "position", Str(<<"S", "F">>)), POS_MAP))
               ELSE base["pos_num"]
        hi0 == HeightToInches(RowGetStr(player_row, "height", Str(<<>>)))
        hi  == IF base["height_inches"] = Num(0)
               THEN IF hi0 = 0 THEN Num(PosHeight(RoundInt(pos.n)) * Scale) ELSE Num(hi0)
               ELSE base["height_inches"]
    IN  [base EXCEPT !["trb_pg"] = trb, !["pos_num"] = pos, !["height_inches"] = hi]

\* predict, lines 252-275: the features read from the row, with fallbacks
PredictFeatures(player_row) ==
    LET base == [feat \in Range(TRAINING_FEATURES) |->
                    IF feat \in Range(UNIVERSAL_FEATURES)
                    THEN LET val == RowGet(player_row, feat, Num(0))
                         IN  IF IsNA(val) THEN Num(0) ELSE val
                    ELSE Num(0)]
        trb == IF base["trb_pg"] = Num(0)
               THEN OrZero(RowGet(player_row, "rpg", Num(0)))
               ELSE base["trb_pg"]
        pos == IF base["pos_num"] = Num(0)
               THEN Num(PosNum(RowGetStr(player_row, "position", Str(<<"S", "F">>)), POS_MAP))
               ELSE base["pos_num"]
        hi0 == HeightToInches(RowGetStr(player_row, "height", Str(<<>>)))
        hi  == IF base["height_inches"] = Num(0)
               THEN IF hi0 = 0 THEN Num(PosHeight(RoundInt(pos.n)) * Scale) ELSE Num(hi0)
               ELSE base["height_inches"]
    IN  [base EXCEPT !["trb_pg"] = trb, !["pos_num"] = pos, !["height_inches"] = hi]

\* X = np.array([[features[f] for f in TRAINING_FEATURES]])
FeatureVector(player_row) ==
    LET f == PredictFeatures(player_row)
    IN  [i \in 1..Len(TRAINING_FEATURES) |-> f[TRAINING_FEATURES[i]]]

\* StandardScaler.transform: (x - mean) / scale per column, NaN kept
Transform(scaler, X) ==
    [i \in 1..Len(X) |-> FDiv(FSub(X[i], Num(scaler.mean[i])), Num(scaler.scale[i]))]

RECURSIVE Dot(_, _, _)
Dot(coef, Z, i) ==
    IF i = 0 THEN 0 ELSE Dot(coef, Z, i - 1) + ScaledMul(Z[i].n, coef[i])

\* float(model.predict(scaler.transform(X))[0]); a None scaler or model has
\* no such method and Ridge.predict rejects NaN input: both raise
ModelPredict(scaler, model, X) ==
    IF ~scaler.fitted \/ ~model.fitted THEN Raise
    ELSE LET Z == Transform(scaler, X)
         IN  IF \E i \in 1..Len(Z) : ~IsNum(Z[i]) THEN Raise
             ELSE Num(model.intercept + Dot(model.coef, Z, Len(Z)))

\* what a call returns: an error dict, a metrics dict, a prediction or an
\* exception ("none": nothing was called yet)
Ret(kind, msg, n, stl, blk, stl_r2, blk_r2) ==
    [kind |-> kind, msg |-> msg, n |-> n, stl |-> stl, blk |-> blk,
     stl_r2 |-> stl_r2, blk_r2 |-> blk_r2]
NoRet == Ret("none", "", 0, 0, 0, 0, 0)
RetPred(stl, blk) == Ret("pred", "", 0, stl, blk, 0, 0)
RetRaise == Ret("raise", "", 0, 0, 0, 0, 0)

\* DefensiveStatImputer.predict without its is_trained test
Predict_noguard(self, player_row) ==
    LET X == FeatureVector(player_row)
        s == ModelPredict(self.stl_scaler, self.stl_model, X)
        b == ModelPredict(self.blk_scaler, self.blk_model, X)
    IN  IF s = Raise \/ b = Raise THEN RetRaise
        ELSE RetPred(Round2(PyMax(Num(0), PyMin(Num(self.stl_cap), s)).n),
                     Round2(PyMax(Num(0), PyMin(Num(self.blk_cap), b)).n))

\* DefensiveStatImputer.predict
Predict(self, player_row) ==
    IF ~self.is_trained THEN RetPred(0, 0)
    ELSE LET X == FeatureVector(player_row)
             stl_raw == ModelPredict(self.stl_scaler, self.stl_model, X)
             blk_raw == ModelPredict(self.blk_scaler, self.blk_model, X)
         IN  IF stl_raw = Raise \/ blk_raw = Raise THEN RetRaise
             ELSE LET stl_pred == PyMax(Num(0), PyMin(Num(self.stl_cap), stl_raw))
                      blk_pred == PyMax(Num(0), PyMin(Num(self.blk_cap), blk_raw))
                  IN  RetPred(Round2(stl_pred.n), Round2(blk_pred.n))

\* --- training ----------------------------------------------------------
MIN_TRAIN_ROWS == 200
MIN_GP == 20
MIN_MPG == 15 * Scale
FIRST_TRACKED_YEAR == 1974

\* a training frame: the optional columns it has, and its rows as a sequence
\* of [row, count] (count equal rows in a run)
OptionalColumns == {"season_year", "gp", "mpg"}

TrainRow(year, gp, mpg, spg, bpg, apg) ==
    [season_year |-> year, gp |-> gp, mpg |-> mpg, spg |-> spg, bpg |-> bpg, apg |-> apg]

\* a >= b on floats: false when a is missing
FGe(a, b) == a.t = "num" /\ a.n >= b

\* train, lines 183-201: the row survives every filter and the dropna.
\* _prepare_features adds mpg = 0.0 to a frame without that column, so the
\* minutes filter always applies.
Qualifies(row, columns) ==
    /\ "season_year" \in columns => row.season_year >= FIRST_TRACKED_YEAR
    /\ "gp" \in columns => row.gp >= MIN_GP
    /\ (IF "mpg" \in columns THEN row.mpg ELSE 0) >= MIN_MPG
    /\ ~IsNA(row.spg) /\ row.spg.n > 0
    /\ ~IsNA(row.bpg) /\ FGe(row.bpg, 0)
    /\ ~IsNA(row.apg)

\* the runs of the frame that are left after filtering
RECURSIVE Filtered(_, _)
Filtered(runs, columns) ==
    IF runs = <<>> THEN <<>>
    ELSE (IF Qualifies(Head(runs).row, columns) /\ Head(runs).count > 0
          THEN <<Head(runs)>> ELSE <<>>) \o Filtered(Tail(runs), columns)

\* len(df)
RECURSIVE NumRows(_)
NumRows(runs) == IF runs = <<>> THEN 0 ELSE Head(runs).count + NumRows(Tail(runs))

\* the number of rows whose column col is at most v
RECURSIVE CountLE(_, _, _)
CountLE(runs, col, v) ==
    IF runs = <<>> THEN 0
    ELSE (IF Head(runs).row[col].n <= v THEN Head(runs).count ELSE 0)
         + CountLE(Tail(runs), col, v)

\* the k-th smallest value of a column (k counted from 0)
KthSmallest(runs, col, k) ==
    LET vals == {runs[i].row[col].n : i \in DOMAIN runs}
    IN  CHOOSE v \in vals :
            /\ CountLE(runs, col, v) > k
            /\ \A w \in vals : w < v => CountLE(runs, col, w) <= k

\* df[col].quantile(0.95): linear interpolation at position 0.95 * (n - 1)
Quantile95(runs, col) ==
    LET n  == NumRows(runs)
        p  == 19 * (n - 1)
        lo == p \div 20
        hi == IF lo + 1 < n THEN lo + 1 ELSE lo
        a  == KthSmallest(runs, col, lo)
        b  == KthSmallest(runs, col, hi)
    IN  a + DivRound((b - a) * (p % 20), 20)

\* what fitting leaves behind: StandardScaler.fit_transform, Ridge.fit and
\* the mean of cross_val_score.  The arithmetic of scikit-learn is outside
\* this repository; a fit is any of these candidates: "guard" scores guards,
\* playmakers and heavy minutes higher (steals-like), "center" scores tall
\* rebounders higher (blocks-like), "flat" is a poor fit with a negative r2.
Fit(name) ==
    LET tenths(s) == [i \in 1..Len(s) |-> s[i] * (Scale \div 10)]
        scaler ==
            [fitted |-> TRUE,
             mean |-> << 3 * Scale, 78 * Scale, 5 * Scale, 2 * Scale, 3 * Scale,
                         26 * Scale, 11 * Scale, 9 * Scale, 14 * Scale, Scale \div 2,
                         Scale, 3 * Scale, 2 * Scale >>,
             scale |-> << Scale, 4 * Scale, 2 * Scale, Scale, 2 * Scale, 6 * Scale,
                          5 * Scale, 4 * Scale, Scale, Scale \div 5, Scale, 2 * Scale,
                          Scale >>]
    IN  CASE name = "guard" ->
               [scaler |-> scaler,
                model |-> [fitted |-> TRUE, intercept |-> Scale,
                           coef |-> tenths(<< -1, -1, 0, 1, 2, 2, 1, 0, 0, 0, 0, 0, 1 >>)],
                r2 |-> Num((2 * Scale) \div 5)]
          [] name = "center" ->
               [scaler |-> scaler,
                model |-> [fitted |-> TRUE, intercept |-> (3 * Scale) \div 5,
                           coef |-> tenths(<< 1, 3, 3, 1, -1, 1, 0, 0, 0, 0, 1, 1, 0 >>)],
                r2 |-> Num((3 * Scale) \div 5)]
          [] OTHER ->
               [scaler |-> scaler,
                model |-> [fitted |-> TRUE, intercept |-> (3 * Scale) \div 4,
                           coef |-> tenths(<< 0, 0, 0, 0, 0, 1, 0, 0, 0, 0, 0, 0, 0 >>)],
                r2 |-> Num(-(Scale \div 10))]
Fits == {Fit(name) : name \in {"guard", "center", "flat"}}

RetError(msg, n) == Ret("error", msg, n, 0, 0, 0, 0)

\* train that stores the ceilings before it counts the rows
Train_capsfirst(self, season_df, sklearn, fit_stl, fit_blk) ==
    IF ~sklearn
    THEN [self |-> self, ret |-> RetError("scikit-learn not installed", 0)]
    ELSE LET df == Filtered(season_df.rows, season_df.columns)
             n  == NumRows(df)
             capped == IF n = 0 THEN self
                       ELSE [self EXCEPT !.stl_cap = Quantile95(df, "spg"),
                                         !.blk_cap = Quantile95(df, "bpg")]
         IN  IF n < MIN_TRAIN_ROWS
             THEN [self |-> capped, ret |-> RetError("insufficient data", n)]
             ELSE [self |-> [capped EXCEPT
                                !.stl_scaler = fit_stl.scaler, !.stl_model = fit_stl.model,
                                !.stl_r2 = fit_stl.r2,
                                !.blk_scaler = fit_blk.scaler, !.blk_model = fit_blk.model,
                                !.blk_r2 = fit_blk.r2, !.is_trained = TRUE],
                   ret |-> Ret("metrics", "", n, Round2(capped.stl_cap),
                               Round2(capped.blk_cap), fit_stl.r2.n, fit_blk.r2.n)]

\* DefensiveStatImputer.train: the imputer afterwards and the dict returned.
\* The height fill of lines 194-199 writes only to train's own copy of the
\* frame, which goes to the fit and nowhere else.
Train(self, season_df, sklearn, fit_stl, fit_blk) ==
    IF ~sklearn
    THEN [self |-> self, ret |-> RetError("scikit-learn not installed", 0)]
    ELSE LET df == Filtered(season_df.rows, season_df.columns)
             n  == NumRows(df)
         IN  IF n < MIN_TRAIN_ROWS
             THEN [self |-> self, ret |-> RetError("insufficient data", n)]
             ELSE LET stl_cap == Quantile95(df, "spg")
                      blk_cap == Quantile95(df, "bpg")
                  IN  [self |-> [self EXCEPT
                                    !.stl_cap = stl_cap, !.blk_cap = blk_cap,
                                    !.stl_scaler = fit_stl.scaler, !.stl_model = fit_stl.model,
                                    !.stl_r2 = fit_stl.r2,
                                    !.blk_scaler = fit_blk.scaler, !.blk_model = fit_blk.model,
                                    !.blk_r2 = fit_blk.r2, !.is_trained = TRUE],
                       ret |-> Ret("metrics", "", n, Round2(stl_cap), Round2(blk_cap),
                                   fit_stl.r2.n, fit_blk.r2.n)]

\* --- the frames and rows the imputer is exercised with -------------------
Tenth == Scale \div 10
Run(row, count) == [row |-> row, count |-> count]
Frame(columns, rows) == [columns |-> columns, rows |-> rows]
NoFrame == Frame({}, <<>>)

\* the frames given to train, by name: "lo", "hi" and "star" rows qualify,
\* each of the six other rows falls to one filter
Df(name) ==
    LET lo   == TrainRow(1990, 70, 25 * Scale, Num(7 * Tenth), Num(3 * Tenth), Num(2 * Scale))
        hi   == TrainRow(2005, 80, 36 * Scale, Num(8 * Tenth), Num(5 * Tenth), Num(6 * Scale))
        star == TrainRow(1986, 82, 38 * Scale, Num(23 * Tenth), Num(23 * Tenth), Num(4 * Scale))
        old  == TrainRow(1970, 75, 40 * Scale, Num(7 * Tenth), Num(3 * Tenth), Num(5 * Scale))
        rejected ==
            << Run(old, 5),
               Run(TrainRow(1999, 10, 30 * Scale, Num(9 * Tenth), Num(2 * Tenth), Num(Scale)), 5),
               Run(TrainRow(1999, 60, 9 * Scale, Num(4 * Tenth), Num(Tenth), Num(Scale)), 5),
               Run(TrainRow(1999, 60, 30 * Scale, Num(0), Num(Tenth), Num(Scale)), 5),
               Run(TrainRow(1999, 60, 30 * Scale, Num(9 * Tenth), NaN, Num(Scale)), 5),
               Run(TrainRow(1999, 60, 30 * Scale, Num(9 * Tenth), Num(Tenth), NaN), 5) >>
    IN  CASE name = "empty" -> Frame(OptionalColumns, <<>>)
          [] name = "fifty" -> Frame(OptionalColumns, << Run(lo, 50) >>)
          [] name = "just short" ->
               Frame(OptionalColumns, << Run(lo, 190), Run(hi, 9) >> \o rejected)
          [] name = "exact" ->
               Frame(OptionalColumns, << Run(star, 10), Run(lo, 190) >> \o rejected)
          [] name = "tie" -> Frame(OptionalColumns, << Run(lo, 195), Run(hi, 11) >>)
          [] name = "big" ->
               Frame(OptionalColumns, << Run(lo, 150), Run(star, 11), Run(hi, 40) >>)
          [] name = "no mpg" -> Frame({"season_year", "gp"}, << Run(lo, 300) >>)
          [] name = "no year" -> Frame({"gp", "mpg"}, << Run(old, 150), Run(lo, 60) >>)
Corpora ==
    {Df(name) : name \in {"empty", "fifty", "just short", "exact", "tie", "big",
                          "no mpg", "no year"}}

RowKeys == Range(TRAINING_FEATURES) \cup {"rpg", "position", "height"}
\* {}
EmptyRow == [key \in RowKeys |-> IF key \in {"position", "height"} THEN AbsentStr ELSE Absent]

\* the rows given to predict, by name
PlayerRow(name) ==
    LET zero == [key \in RowKeys |->
                    IF key \in {"position", "height"} THEN AbsentStr
                    ELSE IF key \in Range(POST_73_FEATURES) THEN Absent ELSE Num(0)]
    IN  CASE name = "empty" -> EmptyRow
          [] name = "zero" -> zero
          \* a legacy center as run_imputer builds the row
          [] name = "legacy center" ->
               [EmptyRow EXCEPT
                   !["position"] = Str(<<"C">>), !["height"] = Str(<<"7", "-", "1">>),
                   !["height_inches"] = Num(0), !["trb_pg"] = Num(229 * Tenth),
                   !["rpg"] = Num(229 * Tenth), !["pf_pg"] = Num(2 * Scale),
                   !["apg"] = Num(44 * Tenth), !["mpg"] = Num(458 * Tenth),
                   !["ppg"] = Num(301 * Tenth), !["fga_pg"] = Num(225 * Tenth),
                   !["league_fga_pg"] = Num(175 * Tenth)]
          \* a guard with an untidy label, no height, and missing values
          [] name = "legacy guard" ->
               [EmptyRow EXCEPT
                   !["position"] = Str(<<" ", "p", "g", " ">>), !["height"] = Str(<<>>),
                   !["rpg"] = Num(45 * Tenth), !["pf_pg"] = None, !["ppg"] = NaN,
                   !["apg"] = Num(97 * Tenth), !["mpg"] = Num(42 * Scale),
                   !["fga_pg"] = Num(18 * Scale), !["league_fga_pg"] = Num(18 * Scale)]
          \* every training feature, the post-1973 ones included
          [] name = "modern" ->
               [EmptyRow EXCEPT
                   !["pos_num"] = Num(25 * Tenth), !["height_inches"] = Num(79 * Scale),
                   !["trb_pg"] = Num(6 * Scale), !["pf_pg"] = Num(2 * Scale),
                   !["apg"] = Num(3 * Scale), !["mpg"] = Num(30 * Scale),
                   !["ppg"] = Num(14 * Scale), !["fga_pg"] = Num(11 * Scale),
                   !["league_fga_pg"] = Num(14 * Scale), !["team_win_pct"] = Num(6 * Tenth),
                   !["orb_pg"] = Num(2 * Scale), !["drb_pg"] = Num(4 * Scale),
                   !["tov_pg"] = Num(2 * Scale)]
          \* a hybrid label and a height that does not parse
          [] name = "hybrid" ->
               [EmptyRow EXCEPT
                   !["position"] = Str(<<"F", "-", "C">>),
                   !["height"] = Str(<<"6", "-", "x">>),
                   !["rpg"] = Num(8 * Scale), !["mpg"] = Num(20 * Scale),
                   !["ppg"] = Num(7 * Scale)]
          \* no rebounds under trb_pg and NaN under rpg
          [] name = "nan rpg" -> [zero EXCEPT !["rpg"] = NaN]
PlayerRows ==
    {PlayerRow(name) : name \in {"empty", "zero", "legacy center", "legacy guard",
                                 "modern", "hybrid", "nan rpg"}}

MaxCalls == 3

ImpIdle ==
    /\ imp = ImputerNew
    /\ imp_op = "new"
    /\ imp_df = NoFrame
    /\ imp_sklearn = TRUE
    /\ imp_row = EmptyRow
    /\ imp_X = <<>>
    /\ imp_ret = NoRet
    /\ imp_calls = 0

\* imputer.train(season_df)
CallTrain ==
    /\ imp_calls < MaxCalls
    /\ \E season_df \in Corpora, sklearn \in BOOLEAN, fit_stl \in Fits, fit_blk \in Fits :
          LET r == Train(imp, season_df, sklearn, fit_stl, fit_blk)
          IN  /\ imp' = r.self
              /\ imp_ret' = r.ret
              /\ imp_df' = season_df
              /\ imp_sklearn' = sklearn
    /\ imp_op' = "train"
    /\ imp_row' = EmptyRow
    /\ imp_X' = <<>>
    /\ imp_calls' = imp_calls + 1
    /\ UNCHANGED NotImp

\* imputer.predict(player_row)
CallPredict ==
    /\ imp_calls < MaxCalls
    /\ \E player_row \in PlayerRows :
          /\ imp_ret' = Predict(imp, player_row)
          /\ imp_row' = player_row
          /\ imp_X' = IF imp.is_trained THEN FeatureVector(player_row) ELSE <<>>
    /\ imp_op' = "predict"
    /\ imp_df' = NoFrame
    /\ imp_calls' = imp_calls + 1
    /\ UNCHANGED <<imp, imp_sklearn, NotImp>>

(***************************************************************************)
(* Career aggregation (compute_career_pmi), one per engine generation.     *)
(***************************************************************************)
GP_HALF_REG_V1 == 60
GP_HALF_PLAYOFF_V1 == 12
GP_HALF_REG_V2 == 50
GP_HALF_PLAYOFF_V2 == 15
GP_HALF_REG_V3 == 82
GP_HALF_PLAYOFF_V3 == 20

RECURSIVE SumSeq(_)
SumSeq(s) == IF s = <<>> THEN 0 ELSE Head(s) + SumSeq(Tail(s))

\* sorted(xs, reverse=True)
RECURSIVE SortedDesc(_)
SortedDesc(xs) ==
    IF xs = <<>> THEN <<>>
    ELSE LET best == CHOOSE x \in Range(xs) : \A y \in Range(xs) : y <= x
             i == Find(xs, best)
         IN  <<best>> \o SortedDesc(SubSeq(xs, 1, i - 1) \o SubSeq(xs, i + 1, Len(xs)))

\* the greatest r in lo..(hi - 1) with r * r <= n
RECURSIVE Bisect(_, _, _)
Bisect(n, lo, hi) ==
    IF hi - lo <= 1 THEN lo
    ELSE LET mid == (lo + hi) \div 2
         IN  IF mid * mid <= n THEN Bisect(n, mid, hi) ELSE Bisect(n, lo, mid)

\* np.sqrt(k) of a small whole number k, in units of 1/Scale
Sqrt(k) == Bisect(k * Scale * Scale, 0, 5 * Scale)

\* the first digits decimal digits of r / b after the point (r < b), the last
\* one rounded
RECURSIVE Decimals(_, _, _)
Decimals(r, b, digits) ==
    IF digits = 0 THEN (IF 2 * r >= b THEN 1 ELSE 0)
    ELSE ((r * 10) \div b) * (10 ^ (digits - 1)) + Decimals((r * 10) % b, b, digits - 1)

\* the fixed-point quotient a / b of two numbers in the same unit (b # 0),
\* by long division, for divisors too large for ScaledDiv
WideDiv(a, b) ==
    LET q == (Abs(a) \div Abs(b)) * Scale + Decimals(Abs(a) % Abs(b), Abs(b), ScaleDigits)
    IN  IF (a < 0) # (b < 0) THEN -q ELSE q

\* trust = total_gp / (total_gp + gp_half)
Trust(total_gp, gp_half) == DivRound(total_gp * Scale, total_gp + gp_half)

\* the shrinkage with trust = total_gp / gp_half
Shrink_overhalf(career_avg, total_gp, gp_half, league_mean) ==
    IF total_gp + gp_half = 0 THEN Raise
    ELSE Num(DivRound(total_gp * career_avg + (gp_half - total_gp) * league_mean, gp_half))

\* trust * career_avg + (1 - trust) * league_mean with
\* trust = total_gp / (total_gp + gp_half), over the common denominator
Shrink(career_avg, total_gp, gp_half, league_mean) ==
    IF total_gp + gp_half = 0 THEN Raise
    ELSE Num(DivRound(total_gp * career_avg + gp_half * league_mean, total_gp + gp_half))

\* v1 compute_career_pmi with career_avg = weighted_sum / n
ComputeCareerPmi_v1_plainmean(season_pmis, total_gp, is_playoff, league_mean) ==
    IF season_pmis = <<>> THEN Num(0)
    ELSE LET sorted_pmis == SortedDesc(season_pmis)
             n == Len(sorted_pmis)
             weight == [i \in 1..n |-> Sqrt(n - (i - 1))]
             weighted_sum == SumSeq([i \in 1..n |-> ScaledMul(sorted_pmis[i], weight[i])])
             career_avg == DivRound(weighted_sum, n)
             gp_half == IF is_playoff THEN GP_HALF_PLAYOFF_V1 ELSE GP_HALF_REG_V1
         IN  Shrink(career_avg, total_gp, gp_half, league_mean)

\* v1 compute_career_pmi: rank-weighted mean of the season scores, the best
\* season weighing sqrt(n), shrunk toward league_mean; round(.., 4) is the
\* resolution of the fixed point
ComputeCareerPmi_v1(season_pmis, total_gp, is_playoff, league_mean) ==
    IF season_pmis = <<>> THEN Num(0)
    ELSE LET sorted_pmis == SortedDesc(season_pmis)
             n == Len(sorted_pmis)
             weight == [i \in 1..n |-> Sqrt(n - (i - 1))]
             weighted_sum == SumSeq([i \in 1..n |-> ScaledMul(sorted_pmis[i], weight[i])])
             total_weight == SumSeq(weight)
             career_avg == IF total_weight > 0 THEN ScaledDiv(weighted_sum, total_weight) ELSE 0
             gp_half == IF is_playoff THEN GP_HALF_PLAYOFF_V1 ELSE GP_HALF_REG_V1
         IN  Shrink(career_avg, total_gp, gp_half, league_mean)

\* v2 and v3 compute_career_pmi with every season weighing the same
CareerByMinutes_unweighted(season_data, gp_half) ==
    IF season_data = <<>> THEN Num(0)
    ELSE LET n == Len(season_data)
             gp == [i \in 1..n |-> OrZero(RowGet(season_data[i], "gp", Num(0))).n]
             career_sum ==
                 SumSeq([i \in 1..n |-> OrZero(RowGet(season_data[i], "pmi", Num(0))).n])
             career == Shrink(DivRound(career_sum, n), SumSeq(gp), gp_half, 0)
         IN  IF career = Raise THEN Raise ELSE Num(Round2(career.n))

\* v2 and v3 compute_career_pmi: minutes-weighted mean of the season scores,
\* shrunk toward 0.0 and rounded to 2 decimals.  A season is a dict
\* [pmi, gp, mpg]; gp counts games, pmi and mpg are fixed-point.
CareerByMinutes(season_data, gp_half) ==
    IF season_data = <<>> THEN Num(0)
    ELSE LET n == Len(season_data)
             gp == [i \in 1..n |-> OrZero(RowGet(season_data[i], "gp", Num(0))).n]
             minutes == [i \in 1..n |->
                            gp[i] * OrZero(RowGet(season_data[i], "mpg", Num(0))).n]
             weighted_sum ==
                 SumSeq([i \in 1..n |->
                            ScaledMul(minutes[i],
                                      OrZero(RowGet(season_data[i], "pmi", Num(0))).n)])
             total_minutes == SumSeq(minutes)
         IN  IF total_minutes = 0 THEN Num(0)
             ELSE LET career == Shrink(WideDiv(weighted_sum, total_minutes),
                                       SumSeq(gp), gp_half, 0)
                  IN  IF career = Raise THEN Raise ELSE Num(Round2(career.n))

\* career_avg of v1: the rank-weighted mean of a non-empty list
CareerAvg_v1(season_pmis) ==
    LET sorted_pmis == SortedDesc(season_pmis)
        n == Len(sorted_pmis)
        weight == [i \in 1..n |-> Sqrt(n - (i - 1))]
    IN  ScaledDiv(SumSeq([i \in 1..n |-> ScaledMul(sorted_pmis[i], weight[i])]),
                  SumSeq(weight))

\* career_avg of v2 and v3: the minutes-weighted mean of seasons with minutes
CareerAvg_v23(season_data) ==
    LET n == Len(season_data)
        minutes == [i \in 1..n |->
                       OrZero(RowGet(season_data[i], "gp", Num(0))).n
                       * OrZero(RowGet(season_data[i], "mpg", Num(0))).n]
    IN  WideDiv(SumSeq([i \in 1..n |->
                           ScaledMul(minutes[i],
                                     OrZero(RowGet(season_data[i], "pmi", Num(0))).n)]),
                SumSeq(minutes))

\* gp_half = GP_HALF_PLAYOFF if is_playoff else GP_HALF_REG
GpHalf(gen, is_playoff) ==
    CASE gen = "v1" -> IF is_playoff THEN GP_HALF_PLAYOFF_V1 ELSE GP_HALF_REG_V1
      [] gen = "v2" -> IF is_playoff THEN GP_HALF_PLAYOFF_V2 ELSE GP_HALF_REG_V2
      [] gen = "v3" -> IF is_playoff THEN GP_HALF_PLAYOFF_V3 ELSE GP_HALF_REG_V3

ComputeCareerPmi_v2(season_data, is_playoff) ==
    CareerByMinutes(season_data, IF is_playoff THEN GP_HALF_PLAYOFF_V2 ELSE GP_HALF_REG_V2)

ComputeCareerPmi_v3(season_data, is_playoff) ==
    CareerByMinutes(season_data, IF is_playoff THEN GP_HALF_PLAYOFF_V3 ELSE GP_HALF_REG_V3)

\* the seasons a career is built from: a full season, a short poor one, one
\* without games, one with missing entries
CareerSeasons ==
    { [pmi |-> Num(10 * Scale), gp |-> Num(82), mpg |-> Num(36 * Scale)],
      [pmi |-> Num(-5 * Scale), gp |-> Num(10), mpg |-> Num(125 * Tenth)],
      [pmi |-> Num(25 * Tenth), gp |-> Num(0), mpg |-> Num(36 * Scale)],
      [pmi |-> Num(-5 * Scale), gp |-> None, mpg |-> Absent] }
CareerGames == {0, 500}
LeagueMeans == {0, Scale \div 2}

MaxSeasons == 3

NoCall == [called |-> FALSE, seasons |-> <<>>, out |-> None]
Called(seasons, out) == [called |-> TRUE, seasons |-> seasons, out |-> out]

\* [s["pmi"] for s in seasons]
SeasonPmis(seasons) == [i \in 1..Len(seasons) |-> seasons[i].pmi.n]
\* sum(s.get("gp", 0) or 0 for s in seasons)
SeasonGames(seasons) ==
    SumSeq([i \in 1..Len(seasons) |-> OrZero(RowGet(seasons[i], "gp", Num(0))).n])

CarIdle ==
    /\ car_gen = "-" /\ car_seasons = <<>> /\ car_total_gp = 0 /\ car_playoff = FALSE
    /\ car_league_mean = 0 /\ car_last = NoCall /\ car_prev = NoCall

\* one more season is played
AddSeason ==
    /\ car_gen # "-"
    /\ Len(car_seasons) < MaxSeasons
    /\ \E s \in CareerSeasons : car_seasons' = Append(car_seasons, s)
    /\ UNCHANGED <<car_gen, car_total_gp, car_playoff, car_league_mean, car_last, car_prev, NotCar>>

CallCareer_v1 ==
    /\ car_gen = "v1"
    /\ car_last.called => car_last.seasons # car_seasons
    /\ car_last' = Called(car_seasons,
                          ComputeCareerPmi_v1(SeasonPmis(car_seasons), car_total_gp,
                                              car_playoff, car_league_mean))
    /\ car_prev' = car_last
    /\ UNCHANGED <<car_gen, car_seasons, car_total_gp, car_playoff, car_league_mean, NotCar>>

CallCareer_v2 ==
    /\ car_gen = "v2"
    /\ car_last.called => car_last.seasons # car_seasons
    /\ car_last' = Called(car_seasons, ComputeCareerPmi_v2(car_seasons, car_playoff))
    /\ car_prev' = car_last
    /\ UNCHANGED <<car_gen, car_seasons, car_total_gp, car_playoff, car_league_mean, NotCar>>

CallCareer_v3 ==
    /\ car_gen = "v3"
    /\ car_last.called => car_last.seasons # car_seasons
    /\ car_last' = Called(car_seasons, ComputeCareerPmi_v3(car_seasons, car_playoff))
    /\ car_prev' = car_last
    /\ UNCHANGED <<car_gen, car_seasons, car_total_gp, car_playoff, car_league_mean, NotCar>>

(***************************************************************************)
(* Season scores: compute_dpmi of v1 and compute_pmi_season of v2 and v3.  *)
(* A row is a dict of per-game stats; league_stats holds, for each stat,   *)
(* the entries "<stat>_mean" and "<stat>_std" as the fields mean and std.  *)
(***************************************************************************)
DPMI_SCALE == 12000
DPMI_DAMPENER_REG == 8500
DPMI_DAMPENER_PLAYOFF == 5500
EFFICIENCY_WEIGHT_V2 == 50000
EFFICIENCY_WEIGHT_V3 == 35000
DEFENSE_BOX_RELIABILITY == 8000
PMI_SCALE == 23000
LG_TS_DEFAULT == 5400

\* one stat's entries of league_stats
LeagueStat(mean, std) == [mean |-> mean, std |-> std]

\* _z(val, league_stats.get("<stat>_mean", 0), league_stats.get("<stat>_std", 1))
ZOf(Z(_, _, _), val, league_stats, stat) ==
    Z(val, RowGet(league_stats[stat], "mean", Num(0)),
           RowGet(league_stats[stat], "std", Num(Scale)))

\* w1 * z1 + w2 * z2 + ...
Weighted(ws, zs) == SumSeq([i \in 1..Len(ws) |-> ScaledMul(ws[i], zs[i].n)])
Raised(zs) == \E i \in 1..Len(zs) : zs[i].t = "raise"

\* round(x, 2), NaN staying NaN
Round2F(x) == IF x.t = "nan" THEN NaN ELSE Num(Round2(x.n))
FAdd(a, b) == IF a.t = "nan" \/ b.t = "nan" THEN NaN ELSE Num(a.n + b.n)

\* ts_pct - lg_ts of compute_pmi_season
TsDiff(row, league_stats) ==
    LET ts_pct == OrZero(RowGet(row, "ts_pct", Num(0)))
        mean == RowGet(league_stats["ts_pct"], "mean", Num(LG_TS_DEFAULT))
        lg_ts == IF OrZero(mean) = Num(0) THEN Num(LG_TS_DEFAULT) ELSE mean
    IN  FSub(ts_pct, lg_ts)

\* the dict compute_pmi_season returns
Scores(pmi, opmi, dpmi) == [t |-> "dict", pmi |-> pmi, opmi |-> opmi, dpmi |-> dpmi]

\* compute_dpmi past its early return: the weighted z-score sum, scaled and
\* dampened; round(.., 4) is the resolution of the fixed point
DpmiSum_v1(row, league_stats, pos_num, is_playoff) ==
    LET spg == RowGet(row, "spg", None)
        bpg == RowGet(row, "bpg", None)
        spg_val == IF spg.t = "none" THEN Num(0) ELSE spg
        bpg_val == IF bpg.t = "none" THEN Num(0) ELSE bpg
        t == PosInterp(pos_num)
        w == InterpWeights(W_DPMI_GUARD, W_DPMI_CENTER, t)
        zs == << ZOf(Z_v1, spg_val, league_stats, "spg"),
                 ZOf(Z_v1, bpg_val, league_stats, "bpg"),
                 ZOf(Z_v1, RowGet(row, "drb_pg", Num(0)), league_stats, "drb_pg"),
                 ZOf(Z_v1, RowGet(row, "pf_pg", Num(0)), league_stats, "pf_pg") >>
        dpmi_raw == Weighted(<<w["z_stl"], w["z_blk"], w["z_drb"], w["z_pf"]>>, zs)
        dampener == IF is_playoff THEN DPMI_DAMPENER_PLAYOFF ELSE DPMI_DAMPENER_REG
    IN  IF Raised(zs) THEN Raise
        ELSE Num(ScaledMul(ScaledMul(dpmi_raw, DPMI_SCALE), dampener))

\* compute_dpmi without its early return
ComputeDpmi_v1_nosentinel(row, league_stats, pos_num, is_playoff) ==
    DpmiSum_v1(row, league_stats, pos_num, is_playoff)

\* pmi_engine.compute_dpmi
ComputeDpmi_v1(row, league_stats, pos_num, is_playoff) ==
    LET spg == RowGet(row, "spg", None)
        bpg == RowGet(row, "bpg", None)
        drb == OrZero(RowGet(row, "drb_pg", Num(0)))
        spg_val == IF spg.t = "none" THEN Num(0) ELSE spg
        bpg_val == IF bpg.t = "none" THEN Num(0) ELSE bpg
    IN  IF spg_val = Num(0) /\ bpg_val = Num(0) /\ drb = Num(0) THEN Num(0)
        ELSE DpmiSum_v1(row, league_stats, pos_num, is_playoff)

PLAYOFF_Z_PTS_WEIGHT == 14500
PLAYOFF_TS_DIFF_MULT == 6500
ERA_PENALTIES == <<[start |-> 1946, m |-> 7200], [start |-> 1950, m |-> 7600],
                   [start |-> 1955, m |-> 8000], [start |-> 1960, m |-> 8400],
                   [start |-> 1965, m |-> 8800], [start |-> 1970, m |-> 9200],
                   [start |-> 1975, m |-> 9500], [start |-> 1980, m |-> 9700],
                   [start |-> 1985, m |-> 10000]>>

\* pmi_engine._era_multiplier: the multiplier of the last bracket that has
\* started, 1.0 before the first
EraMultiplier(season_year) ==
    LET started == {i \in DOMAIN ERA_PENALTIES : season_year >= ERA_PENALTIES[i].start}
    IN  IF started = {} THEN Scale
        ELSE ERA_PENALTIES[CHOOSE i \in started : \A j \in started : j <= i].m

\* the module-level coefficient tables of pmi_engine, as an object that code
\* could write to
EngineTables ==
    [W_GUARD |-> W_GUARD, W_CENTER |-> W_CENTER,
     W_DPMI_GUARD |-> W_DPMI_GUARD, W_DPMI_CENTER |-> W_DPMI_CENTER]

\* compute_opmi, lines 148-154: the local dict w, with the playoff override
OpmiWeights(tables, pos_num, is_playoff) ==
    LET t == PosInterp(pos_num)
        w == InterpWeights(tables.W_GUARD, tables.W_CENTER, t)
    IN  IF is_playoff
        THEN [w EXCEPT !["z_pts"] = DivRound((Scale - t) * PLAYOFF_Z_PTS_WEIGHT
                                             + t * (PLAYOFF_Z_PTS_WEIGHT - 2 * Tenth), Scale),
                       !["ts_diff"] = ScaledMul(w["ts_diff"], PLAYOFF_TS_DIFF_MULT)]
        ELSE w

\* row.get(key, 0) and the league entry of a stat, for dicts that may lack it
GetStat(row, key) == IF key \in DOMAIN row THEN RowGet(row, key, Num(0)) ELSE Num(0)
LeagueOf(league_stats, stat) ==
    IF stat \in DOMAIN league_stats THEN league_stats[stat] ELSE LeagueStat(Absent, Absent)

\* compute_opmi from its z-scores on, with the weights w
OpmiSum(row, league_stats, pos_num, is_playoff, season_year, w) ==
    LET z(stat) == Z_v1(GetStat(row, stat),
                        RowGet(LeagueOf(league_stats, stat), "mean", Num(0)),
                        RowGet(LeagueOf(league_stats, stat), "std", Num(Scale)))
        z_pts0 == z("ppg")
        z_ast == z("apg")
        z_tov0 == z("tov_pg")
        z_orb == z("orb_pg")
        z_fta == z("fta_pg")
        z_fg3m == z("fg3m_pg")
        ts_diff == TsDiff(row, league_stats)
    IN  IF Raised(<<z_pts0, z_ast, z_tov0, z_orb, z_fta, z_fg3m>>) THEN Raise
        ELSE IF ts_diff.t = "nan" THEN NaN
        ELSE
        LET volume_gate == PyMax(Num(Scale \div 4),
                                 PyMin(Num(Scale), Num((z_pts0.n + Scale) \div 2))).n
            ts_diff_gated == ScaledMul(ts_diff.n, volume_gate)
            center_floor == - ScaledMul(3 * Tenth,
                                        PyMax(Num(0), Num(DivRound(pos_num - 2 * Scale, 3))).n)
            z_pts == PyMax(z_pts0, Num(center_floor)).n
            tov_discount == Scale - PyMin(Num(3 * Tenth),
                                          Num(ScaledMul(z_ast.n - Scale, 12 * (Scale \div 100)))).n
            z_tov == IF z_ast.n > Scale THEN ScaledMul(z_tov0.n, tov_discount) ELSE z_tov0.n
            opmi_raw == ScaledMul(w["z_pts"], z_pts) + ScaledMul(w["ts_diff"], ts_diff_gated)
                        + ScaledMul(w["z_ast"], z_ast.n) + ScaledMul(w["z_tov"], z_tov)
                        + ScaledMul(w["z_orb"], z_orb.n) + ScaledMul(w["z_fta"], z_fta.n)
                        + ScaledMul(w["z_fg3m"], z_fg3m.n)
            dom_bonus ==
                IF is_playoff /\ z_pts > 2 * Scale /\ ts_diff.n > 0
                THEN PyMin(Num(12 * Tenth),
                           Num(ScaledMul(ScaledMul(z_pts - 2 * Scale, Scale \div 2),
                                         PyMin(Num(Scale),
                                               Num(ScaledDiv(ts_diff.n, 2 * (Scale \div 100)))).n))).n
                ELSE 0
        IN  Num(ScaledMul(opmi_raw + dom_bonus, EraMultiplier(season_year)))

\* compute_opmi with w an alias of W_GUARD instead of a new dict
ComputeOpmi_v1_aliased(row, league_stats, pos_num, is_playoff, season_year, tables) ==
    LET w == OpmiWeights(tables, pos_num, is_playoff)
    IN  [out |-> OpmiSum(row, league_stats, pos_num, is_playoff, season_year, w),
         tables |-> [tables EXCEPT !.W_GUARD = w]]

\* pmi_engine.compute_opmi: what it returns and what it leaves of the tables.
\* Its two assignments go to w, the dict _interp_weights has just built.
ComputeOpmi_v1(row, league_stats, pos_num, is_playoff, season_year, tables) ==
    LET w == OpmiWeights(tables, pos_num, is_playoff)
    IN  [out |-> OpmiSum(row, league_stats, pos_num, is_playoff, season_year, w),
         tables |-> tables]

\* pmi_v2_engine.compute_pmi_season
ComputePmiSeason_v2(row, league_stats, pos_num) ==
    LET z(stat) == ZOf(Z_v2, RowGet(row, stat, Num(0)), league_stats, stat)
        zo == <<z("ppg"), z("apg"), z("orb_pg"), z("tov_pg")>>
        zd == <<z("spg"), z("bpg"), z("drb_pg"), z("pf_pg")>>
        ts_diff == TsDiff(row, league_stats)
        wo == <<PosWeight_v2("pts", pos_num), PosWeight_v2("ast", pos_num),
                PosWeight_v2("orb", pos_num), WEIGHTS_V2["tov"]>>
        wd == <<PosWeight_v2("stl", pos_num), PosWeight_v2("blk", pos_num),
                PosWeight_v2("drb", pos_num), WEIGHTS_V2["pf"]>>
    IN  IF Raised(zo) \/ Raised(zd) THEN Raise
        ELSE LET opmi == IF ts_diff.t = "nan" THEN NaN
                         ELSE Num(Weighted(wo, zo) + ScaledMul(EFFICIENCY_WEIGHT_V2, ts_diff.n))
                 dpmi == Num(Weighted(wd, zd))
                 pmi == FAdd(opmi, dpmi)
             IN  Scores(Round2F(pmi), Round2F(opmi), Round2F(dpmi))

\* pmi_v3_engine.compute_pmi_season
ComputePmiSeason_v3(row, league_stats, pos_num, season_year) ==
    LET deflators == GetEraDeflators(season_year)
        z(stat) == ZOf(Z_v3, RowGet(row, stat, Num(0)), league_stats, stat)
        raw(stat) == OrZero(RowGet(row, stat, Num(0)))
        adj(stat, key) == IF raw(stat).t = "nan" THEN NaN
                          ELSE Num(ScaledMul(raw(stat).n, deflators[key]))
        zo == <<z("ppg"), z("apg"), z("orb_pg"), z("tov_pg")>>
        zd == << ZOf(Z_v3, adj("spg", "stl"), league_stats, "spg"),
                 ZOf(Z_v3, adj("bpg", "blk"), league_stats, "bpg"),
                 ZOf(Z_v3, adj("drb_pg", "trb"), league_stats, "drb_pg"),
                 z("pf_pg") >>
        ts_diff == TsDiff(row, league_stats)
        raw_ast == raw("apg")
        raw_tov == raw("tov_pg")
        ast_tov_bonus ==
            IF FLt(Num(Scale \div 2), raw_tov) /\ FLt(Num(Scale), raw_ast)
            THEN LET ratio == ScaledDiv(raw_ast.n, raw_tov.n)
                 IN  IF ratio > (3 * Scale) \div 2
                     THEN PyMin(Num(Scale),
                                Num(ScaledMul(ratio - (3 * Scale) \div 2, (3 * Scale) \div 10))).n
                     ELSE 0
            ELSE 0
        wo == <<PosWeight_v3("pts", pos_num), PosWeight_v3("ast", pos_num),
                PosWeight_v3("orb", pos_num), WEIGHTS_V3["tov"]>>
        wd == <<PosWeight_v3("stl", pos_num), PosWeight_v3("blk", pos_num),
                PosWeight_v3("drb", pos_num), WEIGHTS_V3["pf"]>>
        mpg == raw("mpg")
        mpg_factor ==
            IF FLt(Num(0), mpg)
            THEN PyMin(Num(Scale),
                       PyMax(Num((8 * Scale) \div 10),
                             Num((8 * Scale) \div 10 + DivRound(mpg.n - 12 * Scale, 120)))).n
            ELSE Scale
        Scaled(x) == IF x.t = "nan" THEN NaN ELSE Num(ScaledMul(x.n, PMI_SCALE))
    IN  IF Raised(zo) \/ Raised(zd) THEN Raise
        ELSE LET opmi == IF ts_diff.t = "nan" THEN NaN
                         ELSE Num(Weighted(wo, zo) + ScaledMul(EFFICIENCY_WEIGHT_V3, ts_diff.n)
                                  + ast_tov_bonus)
                 dpmi == Num(ScaledMul(Weighted(wd, zd), DEFENSE_BOX_RELIABILITY))
                 sum == FAdd(opmi, dpmi)
                 pmi == IF sum.t = "nan" THEN NaN ELSE Num(ScaledMul(sum.n, mpg_factor))
             IN  Scores(Round2F(Scaled(pmi)), Round2F(Scaled(opmi)), Round2F(Scaled(dpmi)))

(***************************************************************************)
(* League statistics (compute_season_league_stats), one per generation.    *)
(* A DataFrame is [columns, rows]; a missing cell is NaN.                  *)
(***************************************************************************)
LEAGUE_COLS_V1 == {"ppg", "apg", "tov_pg", "orb_pg", "fta_pg", "fg3m_pg", "spg", "bpg",
                   "drb_pg", "pf_pg", "ts_pct"}
LEAGUE_COLS_V23 == {"ppg", "apg", "tov_pg", "orb_pg", "spg", "bpg", "drb_pg", "pf_pg",
                    "ts_pct"}
MIN_LEAGUE_ROWS == 20
MIN_LEAGUE_MPG_V2 == 10
MIN_LEAGUE_MPG_V3 == 15

\* df[col].dropna(), as fixed-point numbers
DropNa(rows, col) ==
    LET cells == [i \in 1..Len(rows) |-> rows[i][col]]
        kept == SelectSeq(cells, IsNum)
    IN  [i \in 1..Len(kept) |-> kept[i].n]

\* vals.mean()
Mean(vals) == DivRound(SumSeq(vals), Len(vals))

\* the square root of a fixed-point number v >= 0, truncated
FSqrt(v) ==
    LET h == 10 ^ (ScaleDigits \div 2)
        s == Bisect(v, 0, 46341)
        rest == (v - s * s) * Scale
        d == CHOOSE d \in 0..(h - 1) :
                /\ 2 * h * s * d + d * d <= rest
                /\ d = h - 1 \/ 2 * h * s * (d + 1) + (d + 1) * (d + 1) > rest
    IN  h * s + d

\* vals.std() dividing by n (the population standard deviation)
SampleStd_population(vals) ==
    LET m == Mean(vals)
        squares == [i \in 1..Len(vals) |-> ScaledMul(vals[i] - m, vals[i] - m)]
    IN  FSqrt(DivRound(SumSeq(squares), Len(vals)))

\* vals.std() of pandas: the sample standard deviation (ddof = 1), for
\* at least two values
SampleStd(vals) ==
    LET m == Mean(vals)
        squares == [i \in 1..Len(vals) |-> ScaledMul(vals[i] - m, vals[i] - m)]
    IN  FSqrt(DivRound(SumSeq(squares), Len(vals) - 1))

\* work without the fallback to df
MinutesFiltered_nofallback(df, min_mpg) ==
    IF "mpg" \in df.columns
    THEN SelectSeq(df.rows, LAMBDA r : FGe(r["mpg"], min_mpg * Scale))
    ELSE df.rows

\* work = df[df["mpg"] >= min_mpg] if df has the column, df if fewer than 20
\* rows are left
MinutesFiltered(df, min_mpg) ==
    LET work == IF "mpg" \in df.columns
                THEN SelectSeq(df.rows, LAMBDA r : FGe(r["mpg"], min_mpg * Scale))
                ELSE df.rows
    IN  IF Len(work) < MIN_LEAGUE_ROWS THEN df.rows ELSE work

\* pmi_engine.compute_season_league_stats
LeagueStats_v1(df) ==
    [stat \in LEAGUE_COLS_V1 |->
        IF stat \in df.columns
        THEN LET vals == DropNa(df.rows, stat)
             IN  LeagueStat(IF Len(vals) > 0 THEN Num(Mean(vals)) ELSE Num(0),
                            IF Len(vals) > 1 THEN Num(SampleStd(vals)) ELSE Num(Scale))
        ELSE LeagueStat(Num(0), Num(Scale))]

\* pmi_v2_engine.compute_season_league_stats
LeagueStats_v2(df) ==
    LET work == MinutesFiltered(df, MIN_LEAGUE_MPG_V2)
    IN  [stat \in LEAGUE_COLS_V23 |->
            IF stat \in df.columns
            THEN LET vals == DropNa(work, stat)
                     std == IF Len(vals) > 1 THEN SampleStd(vals) ELSE Scale
                 IN  IF Len(vals) > 0
                     THEN LeagueStat(Num(Mean(vals)),
                                     IF std < STD_FLOOR_V3 THEN Num(Scale) ELSE Num(std))
                     ELSE LeagueStat(Num(0), Num(Scale))
            ELSE LeagueStat(Num(0), Num(Scale))]

\* pmi_v3_engine.compute_season_league_stats
LeagueStats_v3(df) ==
    LET work == MinutesFiltered(df, MIN_LEAGUE_MPG_V3)
    IN  [stat \in LEAGUE_COLS_V23 |->
            IF stat \in df.columns
            THEN LET vals == DropNa(work, stat)
                 IN  IF Len(vals) > 0
                     THEN LeagueStat(Num(Mean(vals)),
                                     IF Len(vals) > 1
                                     THEN PyMax(Num(STD_FLOOR_V3), Num(SampleStd(vals)))
                                     ELSE Num(Scale))
                     ELSE LeagueStat(Num(0), Num(Scale))
            ELSE LeagueStat(Num(0), Num(Scale))]

(***************************************************************************)
(* Functions studied one call at a time: the arguments are chosen, then    *)
(* the function is applied to them.                                        *)
(***************************************************************************)
CallIdle == call_pc = "idle" /\ call_fn = "-" /\ call_args = <<>> /\ call_out = None

\* the call returns out
Return(out) ==
    /\ call_pc' = "done"
    /\ call_out' = out
    /\ UNCHANGED <<call_fn, call_args, NotCall>>

\* a full season scoring 10.0 at m1 minutes a game and a ten-game season
\* scoring -5.0 at m2 minutes a game
TwoSeasons(m1, m2) ==
    << [pmi |-> Num(10 * Scale), gp |-> Num(82), mpg |-> Num(m1)],
       [pmi |-> Num(-5 * Scale), gp |-> Num(10), mpg |-> Num(m2)] >>

MaxMpgStep == 8
MpgValues == {45 * k * Tenth : k \in 1..MaxMpgStep}
CareerArgs == {a \in [m1 : MpgValues, m2 : MpgValues] : a.m1 > a.m2}

\* the same two seasons scored by compute_career_pmi of each generation, the
\* way build_summary calls it: total_gp the games played, regular season
CallCareerEach ==
    /\ call_pc = "input"
    /\ call_fn = "compute_career_pmi"
    /\ LET seasons == TwoSeasons(call_args.m1, call_args.m2)
       IN  Return([v1 |-> ComputeCareerPmi_v1(SeasonPmis(seasons), SeasonGames(seasons),
                                              FALSE, 0),
                   v2 |-> ComputeCareerPmi_v2(seasons, FALSE),
                   v3 |-> ComputeCareerPmi_v3(seasons, FALSE)])

\* rows of one season: the defensive stats vary, the rest is an ordinary line
\* careers of one or two seasons with games played: the first season has as
\* many games as one of the half-lives, the second is a bench season or a
\* short poor one
ShrinkCareers ==
    LET first == {[pmi |-> Num(p), gp |-> Num(g), mpg |-> Num(m)] :
                     p \in {10 * Scale, -5 * Scale, Scale \div 100},
                     g \in {GpHalf(gen, ply) : gen \in {"v1", "v2", "v3"}, ply \in BOOLEAN},
                     m \in {36 * Scale, 15 * Scale}}
        second == {[pmi |-> Num(0), gp |-> Num(82), mpg |-> Num(15 * Scale)],
                   [pmi |-> Num(-5 * Scale), gp |-> Num(10), mpg |-> Num(125 * Tenth)]}
    IN  {<<a>> : a \in first} \cup {<<a, b>> : a \in first, b \in second}
ShrinkArgs ==
    {a \in [gen : {"v1", "v2", "v3"}, seasons : ShrinkCareers, is_playoff : BOOLEAN,
            league_mean : LeagueMeans] : a.gen # "v1" => a.league_mean = 0}

\* compute_career_pmi of one generation, with its locals trust and career_avg
CallCareerShrinkage ==
    /\ call_pc = "input"
    /\ call_fn = "compute_career_pmi: trust"
    /\ LET seasons == call_args.seasons
           total_gp == SeasonGames(seasons)
       IN  Return([trust |-> Trust(total_gp, GpHalf(call_args.gen, call_args.is_playoff)),
                   career_avg |-> IF call_args.gen = "v1" THEN CareerAvg_v1(SeasonPmis(seasons))
                                  ELSE CareerAvg_v23(seasons),
                   career |-> CASE call_args.gen = "v1" ->
                                     ComputeCareerPmi_v1(SeasonPmis(seasons), total_gp,
                                                         call_args.is_playoff,
                                                         call_args.league_mean)
                                [] call_args.gen = "v2" ->
                                     ComputeCareerPmi_v2(seasons, call_args.is_playoff)
                                [] call_args.gen = "v3" ->
                                     ComputeCareerPmi_v3(seasons, call_args.is_playoff)])

SeasonRow(spg, bpg, drb_pg, pf_pg) ==
    [ppg |-> Num(20 * Scale), apg |-> Num(5 * Scale), tov_pg |-> Num(2 * Scale),
     orb_pg |-> Num(Scale), spg |-> spg, bpg |-> bpg, drb_pg |-> drb_pg, pf_pg |-> pf_pg,
     ts_pct |-> Num(58 * (Scale \div 100)), mpg |-> Num(30 * Scale)]
StatValues(x) == {Num(0), None, Absent, NaN, Num(x)}
SeasonRows ==
    {SeasonRow(s, b, d, p) : s \in StatValues(15 * Tenth), b \in StatValues(5 * Tenth),
                             d \in StatValues(4 * Scale), p \in {Num(0), Num(2 * Scale)}}

\* league_stats: of a modern season, of a season without steals and blocks
\* (every spg and bpg 0), and the empty dict
League(name) ==
    [stat \in {"ppg", "apg", "tov_pg", "orb_pg", "spg", "bpg", "drb_pg", "pf_pg", "ts_pct"} |->
        IF name = "empty" THEN LeagueStat(Absent, Absent)
        ELSE IF name = "legacy" /\ stat \in {"spg", "bpg"} THEN LeagueStat(Num(0), Num(0))
        ELSE CASE stat = "ppg" -> LeagueStat(Num(10 * Scale), Num(6 * Scale))
               [] stat = "apg" -> LeagueStat(Num(25 * Tenth), Num(2 * Scale))
               [] stat = "tov_pg" -> LeagueStat(Num(15 * Tenth), Num(8 * Tenth))
               [] stat = "orb_pg" -> LeagueStat(Num(Scale), Num(8 * Tenth))
               [] stat = "spg" -> LeagueStat(Num(8 * Tenth), Num(4 * Tenth))
               [] stat = "bpg" -> LeagueStat(Num(5 * Tenth), Num(5 * Tenth))
               [] stat = "drb_pg" -> LeagueStat(Num(3 * Scale), Num(2 * Scale))
               [] stat = "pf_pg" -> LeagueStat(Num(2 * Scale), Num(7 * Tenth))
               [] stat = "ts_pct" -> LeagueStat(Num(55 * (Scale \div 100)), Num(5 * (Scale \div 100)))]
Leagues == {League(name) : name \in {"modern", "legacy", "empty"}}
PosNums == {Scale, 3 * Scale, 5 * Scale}

DpmiArgs ==
    [row : SeasonRows, league_stats : Leagues, pos_num : PosNums, is_playoff : BOOLEAN]
PmiSeasonArgs ==
    [row : SeasonRows, league_stats : Leagues, pos_num : PosNums,
     season_year : {1965, 1988, 2020}]

CallComputeDpmi ==
    /\ call_pc = "input"
    /\ call_fn = "compute_dpmi"
    /\ Return(ComputeDpmi_v1(call_args.row, call_args.league_stats, call_args.pos_num,
                             call_args.is_playoff))

\* v2 has no season_year parameter
CallPmiSeason_v2 ==
    /\ call_pc = "input"
    /\ call_fn = "compute_pmi_season_v2"
    /\ Return(ComputePmiSeason_v2(call_args.row, call_args.league_stats, call_args.pos_num))

CallPmiSeason_v3 ==
    /\ call_pc = "input"
    /\ call_fn = "compute_pmi_season_v3"
    /\ Return(ComputePmiSeason_v3(call_args.row, call_args.league_stats, call_args.pos_num,
                                  call_args.season_year))

\* a row of a season frame: minutes, points, steals and true shooting vary,
\* every other stat is 0
LeagueRow(mpg, ppg, spg, ts_pct) ==
    [c \in LEAGUE_COLS_V1 \cup {"mpg"} |->
        CASE c = "mpg" -> mpg
          [] c = "ppg" -> ppg
          [] c = "spg" -> spg
          [] c = "ts_pct" -> ts_pct
          [] OTHER -> Num(0)]
Repeat(row, n) == [i \in 1..n |-> row]

\* season frames: three rows scoring 10, 20 and 30; a single row; three equal
\* rows; no row; no stat column; points missing in all rows but one; 25 rows
\* of which 21 play 15 minutes or more; 25 rows of which 19 do; 25 rows of
\* which 20 do
LeagueDf(name) ==
    LET cols == LEAGUE_COLS_V1 \cup {"mpg"}
        P(mpg, ppg) == LeagueRow(Num(mpg * Scale), Num(ppg * Scale), Num(0), Num(0))
        star == LeagueRow(Num(30 * Scale), Num(20 * Scale), Num(Scale), Num(55 * (Scale \div 100)))
    IN  CASE name = "three" -> Frame(cols, <<P(30, 10), P(30, 20), P(30, 30)>>)
          [] name = "single" -> Frame(cols, <<star>>)
          [] name = "constant" -> Frame(cols, Repeat(star, 3))
          [] name = "empty" -> Frame(cols, <<>>)
          [] name = "no stats" -> Frame({"mpg"}, <<P(30, 10), P(30, 20)>>)
          [] name = "missing" ->
                Frame(cols, <<LeagueRow(Num(30 * Scale), NaN, Num(Scale), Num(0)),
                              LeagueRow(NaN, Num(20 * Scale), Num(2 * Scale), Num(0)),
                              LeagueRow(Num(30 * Scale), NaN, NaN, Num(0))>>)
          [] name = "bench" ->
                Frame(cols, Repeat(P(30, 10), 11) \o Repeat(P(12, 0), 4) \o Repeat(P(30, 30), 10))
          [] name = "thin" ->
                Frame(cols, Repeat(P(30, 10), 10) \o Repeat(P(5, 0), 6) \o Repeat(P(30, 30), 9))
          [] name = "twenty" ->
                Frame(cols, Repeat(P(30, 10), 10) \o Repeat(P(12, 0), 5) \o Repeat(P(15, 30), 10))
LeagueDfs ==
    {LeagueDf(name) : name \in {"three", "single", "constant", "empty", "no stats",
                                "missing", "bench", "thin", "twenty"}}
LeagueStatsArgs == [df : LeagueDfs]

CallLeagueStats_v1 ==
    /\ call_pc = "input"
    /\ call_fn = "compute_season_league_stats_v1"
    /\ Return(LeagueStats_v1(call_args.df))

CallLeagueStats_v2 ==
    /\ call_pc = "input"
    /\ call_fn = "compute_season_league_stats_v2"
    /\ Return(LeagueStats_v2(call_args.df))

CallLeagueStats_v3 ==
    /\ call_pc = "input"
    /\ call_fn = "compute_season_league_stats_v3"
    /\ Return(LeagueStats_v3(call_args.df))

\* round(x, 1) of a fixed-point number: to a multiple of Scale/10, ties to even
Round1(n) ==
    LET q == Abs(n) \div Tenth
        r == Abs(n) % Tenth
        up == (2 * r > Tenth) \/ (2 * r = Tenth /\ q % 2 = 1)
        m == (IF up THEN q + 1 ELSE q) * Tenth
    IN  IF n < 0 THEN -m ELSE m

\* fetch_nba_data._sf: the float of val, 0.0 for None and NaN
Sf(val) == IF val.t = "num" THEN val ELSE Num(0)

\* a row of a raw season frame: games, steals, blocks, defensive rebounds
\* and fouls vary, every other column is 0
RawRow(gp, stl, blk, dreb, pf) == [GP |-> gp, STL |-> stl, BLK |-> blk, DREB |-> dreb, PF |-> pf]

\* compute_pmi: the rows it builds of a raw season frame, one for every row
\* with games played
RawPopulation(raw) ==
    LET played == SelectSeq(raw, LAMBDA r : r.GP # 0)
    IN  [i \in 1..Len(played) |->
            [c \in LEAGUE_COLS_V1 \cup {"mpg"} |->
                CASE c = "spg" -> Num(Round1(Sf(played[i].STL).n))
                  [] c = "bpg" -> Num(Round1(Sf(played[i].BLK).n))
                  [] c = "drb_pg" -> Num(Round1(Sf(played[i].DREB).n))
                  [] c = "pf_pg" -> Num(Round1(Sf(played[i].PF).n))
                  [] OTHER -> Num(0)]]

\* compute_pmi: the table used for a season that has no entry in league_cache
FALLBACK_LEAGUE ==
    [stat \in LEAGUE_COLS_V1 |->
        CASE stat = "ppg" -> LeagueStat(Num(14 * Scale), Num(65 * Tenth))
          [] stat = "apg" -> LeagueStat(Num(28 * Tenth), Num(25 * Tenth))
          [] stat = "tov_pg" -> LeagueStat(Num(15 * Tenth), Num(8 * Tenth))
          [] stat = "orb_pg" -> LeagueStat(Num(Scale), Num(8 * Tenth))
          [] stat = "fta_pg" -> LeagueStat(Num(25 * Tenth), Num(15 * Tenth))
          [] stat = "fg3m_pg" -> LeagueStat(Num(5 * Tenth), Num(6 * Tenth))
          [] stat = "spg" -> LeagueStat(Num(8 * Tenth), Num(5 * Tenth))
          [] stat = "bpg" -> LeagueStat(Num(5 * Tenth), Num(5 * Tenth))
          [] stat = "drb_pg" -> LeagueStat(Num(25 * Tenth), Num(15 * Tenth))
          [] stat = "pf_pg" -> LeagueStat(Num(22 * Tenth), Num(8 * Tenth))
          [] stat = "ts_pct" -> LeagueStat(Num(54 * (Scale \div 100)), Num(5 * (Scale \div 100)))]

\* lg without the league cache
PipelineLeague_fallbackonly(raw) == FALLBACK_LEAGUE

\* compute_pmi: lg = league_cache.get((season, stype), fallback), the cache
\* holding the stats of every raw frame of which some row was built
PipelineLeague(raw) ==
    LET rows == RawPopulation(raw)
    IN  IF rows = <<>> THEN FALLBACK_LEAGUE
        ELSE LeagueStats_v1(Frame(LEAGUE_COLS_V1 \cup {"mpg"}, rows))

\* compute_pmi: s["dpmi"] of a season row s
PipelineDpmi(s, raw, pos_num, is_playoff) ==
    LET dpmi == ComputeDpmi_v1(s, PipelineLeague(raw), pos_num, is_playoff)
    IN  IF dpmi.t = "raise" THEN Raise ELSE Round2F(dpmi)

\* raw rows of a season without steals and blocks (0, None or NaN in the
\* feed), with and without games; a raw row of a season that has them
RawRows ==
    { RawRow(70, Num(0), Num(0), Num(0), Num(2 * Scale)),
      RawRow(60, None, NaN, Num(0), Num(3 * Scale)),
      RawRow(82, NaN, None, Num(4 * Scale), Num(35 * Tenth)),
      RawRow(0, Num(0), Num(0), Num(0), Num(0)),
      RawRow(75, Num(12 * Tenth), Num(5 * Tenth), Num(4 * Scale), Num(2 * Scale)) }
MaxRawRows == 3
RawFrames == UNION {[1..n -> RawRows] : n \in 0..MaxRawRows}

\* two season rows with imputed steals and blocks that differ in nothing else
ImputedPairs ==
    { <<SeasonRow(Num(78 * (Scale \div 100)), Num(45 * (Scale \div 100)), d, Num(2 * Scale)),
        SeasonRow(s, b, d, Num(2 * Scale))>> :
        s \in {Num(78 * (Scale \div 100)), Num(15 * Tenth)},
        b \in {Num(45 * (Scale \div 100)), Num(12 * Tenth)},
        d \in {Num(0), Num(4 * Scale)} }
LegacySeasonArgs ==
    [raw : RawFrames, pair : ImputedPairs, pos_num : {Scale, 5 * Scale}, is_playoff : BOOLEAN]

\* compute_pmi on one season: its league stats, and the dpmi of two of its rows
CallLegacySeason ==
    /\ call_pc = "input"
    /\ call_fn = "compute_pmi: dpmi"
    /\ Return([lg |-> PipelineLeague(call_args.raw),
               first |-> PipelineDpmi(call_args.pair[1], call_args.raw, call_args.pos_num,
                                      call_args.is_playoff),
               second |-> PipelineDpmi(call_args.pair[2], call_args.raw, call_args.pos_num,
                                       call_args.is_playoff)])

\* compute_pmi: the scores it stores in a season row s
PipelineScores(s, lg, pos_num, is_playoff, year) ==
    LET opmi == ComputeOpmi_v1(s, lg, pos_num, is_playoff, year, EngineTables).out
        dpmi == ComputeDpmi_v1(s, lg, pos_num, is_playoff)
    IN  IF opmi.t = "raise" \/ dpmi.t = "raise" THEN Raise
        ELSE Scores(Round2F(FAdd(opmi, dpmi)), Round2F(opmi), Round2F(dpmi))

PipelineScoresArgs ==
    [row : SeasonRows, league_stats : Leagues \cup {FALLBACK_LEAGUE}, pos_num : {3 * Scale},
     season_year : {1965, 2020}, is_playoff : BOOLEAN]

CallPipelineScores ==
    /\ call_pc = "input"
    /\ call_fn = "compute_pmi: scores"
    /\ Return(PipelineScores(call_args.row, call_args.league_stats, call_args.pos_num,
                             call_args.is_playoff, call_args.season_year))

\* position labels: the labels the league's feeds use, and every string of
\* at most MaxLabelLen characters over a few letters and the separators
MaxLabelLen == 3
LabelChars == {"G", "F", "C", "P", "S", "g", "x", "-", "/", " "}
RECURSIVE Strings(_)
Strings(n) ==
    IF n = 0 THEN {<<>>}
    ELSE Strings(n - 1) \cup {Append(w, c) : w \in Strings(n - 1), c \in LabelChars}
FeedLabels ==
    { <<"G", "u", "a", "r", "d", "-", "F", "o", "r", "w", "a", "r", "d">>,
      <<"G", "-", "F">>,
      <<"F", "-", "C">>,
      <<"F", "o", "r", "w", "a", "r", "d", "-", "C", "e", "n", "t", "e", "r">>,
      <<"F", "-", "G">>,
      <<"C", "-", "F">>,
      <<"G", "u", "a", "r", "d">>,
      <<"F", "o", "r", "w", "a", "r", "d">>,
      <<"C", "e", "n", "t", "e", "r">>,
      <<"P", "G">>,
      <<"p", "f">>,
      <<" ", "S", "G", " ">>,
      <<"W", "i", "n", "g">>,
      <<"G", "/", "F">> }
Labels == {Str(w) : w \in Strings(MaxLabelLen) \cup FeedLabels} \cup {NoStr, NanStr}
PosNumArgs == [pos_str : Labels]

\* pmi_engine._pos_num
CallPosNum_v1 ==
    /\ call_pc = "input"
    /\ call_fn = "pos_num_v1"
    /\ Return(Num(PosNum(call_args.pos_str, POS_MAP_V1)))

\* pmi_v3_engine._pos_num (pmi_v2_engine's is the same)
CallPosNum_v3 ==
    /\ call_pc = "input"
    /\ call_fn = "pos_num_v3"
    /\ Return(Num(PosNum(call_args.pos_str, POS_MAP)))

\* defensive_imputer._pos_num
CallPosNum_imputer ==
    /\ call_pc = "input"
    /\ call_fn = "pos_num_imputer"
    /\ Return(Num(PosNum(call_args.pos_str, POS_MAP)))

\* the functions and the arguments each is called with
CallArgs ==
    [compute_career_pmi |-> CareerArgs, compute_dpmi |-> DpmiArgs]
    @@ ("compute_career_pmi: trust" :> ShrinkArgs)
    @@ ("compute_pmi: dpmi" :> LegacySeasonArgs)
    @@ ("compute_pmi: scores" :> PipelineScoresArgs)
    @@ [
     compute_pmi_season_v2 |-> {a \in PmiSeasonArgs : a.season_year = 2020},
     compute_pmi_season_v3 |-> PmiSeasonArgs,
     compute_season_league_stats_v1 |-> LeagueStatsArgs,
     compute_season_league_stats_v2 |-> LeagueStatsArgs,
     compute_season_league_stats_v3 |-> LeagueStatsArgs,
     pos_num_v1 |-> PosNumArgs, pos_num_v3 |-> PosNumArgs, pos_num_imputer |-> PosNumArgs]

(***************************************************************************)
(* The ingestion pipeline (run_ingestion) from step 3b on: run_imputer,    *)
(* then compute_pmi.  A recompute run loads the players from the cache     *)
(* files and goes to compute_pmi at once.                                  *)
(***************************************************************************)
RunIdle ==
    /\ run_mode = "-" /\ run_pc = "idle" /\ run_rows = <<>> /\ run_corpus = NoFrame
    /\ run_sklearn = TRUE /\ run_imp = ImputerNew /\ run_i = 0 /\ run_cnt = 0
    /\ run_log = <<>> /\ run_cache = <<>> /\ run_full = <<>>

\* a season row of a player: its year, its steals and blocks, the row that
\* run_imputer would hand to predict for it (by name), and what the pipeline
\* has written into it
RunRow(year, spg, bpg, pr) ==
    [year |-> year, spg |-> spg, bpg |-> bpg, pr |-> pr, imputed_defense |-> FALSE,
     dpmi |-> Absent]

\* legacy rows without steals and blocks, a legacy row with blocks, and
\* modern rows with and without them
RunRowKinds ==
    { RunRow(1965, Num(0), Num(0), "legacy center"),
      RunRow(1960, Absent, None, "legacy guard"),
      RunRow(1972, Num(0), Num(5 * Tenth), "hybrid"),
      RunRow(1980, Num(12 * Tenth), Num(5 * Tenth), "hybrid"),
      RunRow(1974, Num(0), Num(0), "legacy center") }
MaxRows == 2
RunRowLists == UNION {[1..n -> RunRowKinds] : n \in 1..MaxRows}

Logged(op, row) == [op |-> op, row |-> row]

\* json.load(json.dump(rows)): numbers, None, NaN and booleans come back as
\* they were written, a missing key stays missing
JsonRoundTrip(rows) ==
    [i \in 1..Len(rows) |->
        [k \in DOMAIN rows[i] |->
            LET v == rows[i][k]
            IN  IF k \in {"spg", "bpg", "dpmi"}
                THEN CASE v.t = "num" -> Num(v.n) [] v.t = "nan" -> NaN
                       [] v.t = "none" -> None [] OTHER -> Absent
                ELSE v]]

\* _cache_data, between step 3 and step 3b: the players dict goes to the cache
\* file as build_players made it
CacheData ==
    /\ run_pc = "cache"
    /\ run_cache' = run_rows
    /\ run_pc' = "step 3b"
    /\ UNCHANGED <<run_mode, run_rows, run_corpus, run_sklearn, run_imp, run_i, run_cnt,
                   run_log, run_full, NotRun>>

\* run_ingestion(recompute=True) after a full run: the players are loaded from
\* the cache file and go to compute_pmi; no imputer is made
LoadCache ==
    /\ run_pc = "done"
    /\ run_mode = "full"
    /\ run_mode' = "recompute"
    /\ run_full' = run_rows
    /\ run_rows' = JsonRoundTrip(run_cache)
    /\ run_imp' = ImputerNew
    /\ run_i' = 0
    /\ run_cnt' = 0
    /\ run_log' = <<>>
    /\ run_pc' = "step 4"
    /\ UNCHANGED <<run_corpus, run_sklearn, run_cache, NotRun>>

\* run_imputer up to its prediction loop: no modern row, no training;
\* otherwise a new imputer is trained, and the loop is entered if it is
\* trained
RunImputerTrain_unguarded ==
    /\ run_pc = "step 3b"
    /\ IF NumRows(run_corpus.rows) = 0
       THEN /\ run_pc' = "step 4"
            /\ UNCHANGED <<run_imp, run_log>>
       ELSE \E fit_stl \in Fits, fit_blk \in Fits :
               \E r \in {Train(ImputerNew, run_corpus, run_sklearn, fit_stl, fit_blk)} :
                   /\ run_imp' = r.self
                   /\ run_log' = Append(run_log, Logged("train", 0))
                   /\ run_pc' = "predict"
    /\ run_i' = 1
    /\ run_cnt' = 0
    /\ UNCHANGED <<run_mode, run_rows, run_corpus, run_sklearn, run_cache, run_full, NotRun>>

RunImputerTrain ==
    /\ run_pc = "step 3b"
    /\ IF NumRows(run_corpus.rows) = 0
       THEN /\ run_pc' = "step 4"
            /\ UNCHANGED <<run_imp, run_log>>
       ELSE \E fit_stl \in Fits, fit_blk \in Fits :
               \E r \in {Train(ImputerNew, run_corpus, run_sklearn, fit_stl, fit_blk)} :
                   /\ run_imp' = r.self
                   /\ run_log' = Append(run_log, Logged("train", 0))
                   /\ run_pc' = IF r.self.is_trained THEN "predict" ELSE "step 4"
    /\ run_i' = 1
    /\ run_cnt' = 0
    /\ UNCHANGED <<run_mode, run_rows, run_corpus, run_sklearn, run_cache, run_full, NotRun>>

\* the loop body without the test of the year
RunImputerPredict_anyyear ==
    /\ run_pc = "predict"
    /\ run_i <= Len(run_rows)
    /\ LET s == run_rows[run_i]
           spg_val == OrZero(RowGet(s, "spg", Num(0)))
           bpg_val == OrZero(RowGet(s, "bpg", Num(0)))
       IN  IF spg_val = Num(0) /\ bpg_val = Num(0)
           THEN \E r \in {Predict(run_imp, PlayerRow(s.pr))} :
                    /\ run_log' = Append(run_log, Logged("predict", run_i))
                    /\ IF r.kind = "raise"
                       THEN /\ run_pc' = "raised"
                            /\ UNCHANGED <<run_rows, run_cnt, run_i>>
                       ELSE /\ run_rows' = [run_rows EXCEPT ![run_i] =
                                               [s EXCEPT !.spg = Num(r.stl), !.bpg = Num(r.blk),
                                                         !.imputed_defense = TRUE]]
                            /\ run_cnt' = run_cnt + 1
                            /\ run_i' = run_i + 1
                            /\ UNCHANGED run_pc
           ELSE /\ run_i' = run_i + 1
                /\ UNCHANGED <<run_pc, run_rows, run_cnt, run_log>>
    /\ UNCHANGED <<run_mode, run_corpus, run_sklearn, run_cache, run_full, run_imp, NotRun>>

\* one turn of run_imputer's loop over the season rows
RunImputerPredict ==
    /\ run_pc = "predict"
    /\ run_i <= Len(run_rows)
    /\ LET s == run_rows[run_i]
           spg_val == OrZero(RowGet(s, "spg", Num(0)))
           bpg_val == OrZero(RowGet(s, "bpg", Num(0)))
       IN  IF s.year < FIRST_TRACKED_YEAR /\ spg_val = Num(0) /\ bpg_val = Num(0)
           THEN \E r \in {Predict(run_imp, PlayerRow(s.pr))} :
                    /\ run_log' = Append(run_log, Logged("predict", run_i))
                    /\ IF r.kind = "raise"
                       THEN /\ run_pc' = "raised"
                            /\ UNCHANGED <<run_rows, run_cnt, run_i>>
                       ELSE /\ run_rows' = [run_rows EXCEPT ![run_i] =
                                               [s EXCEPT !.spg = Num(r.stl), !.bpg = Num(r.blk),
                                                         !.imputed_defense = TRUE]]
                            /\ run_cnt' = run_cnt + 1
                            /\ run_i' = run_i + 1
                            /\ UNCHANGED run_pc
           ELSE /\ run_i' = run_i + 1
                /\ UNCHANGED <<run_pc, run_rows, run_cnt, run_log>>
    /\ UNCHANGED <<run_mode, run_corpus, run_sklearn, run_cache, run_full, run_imp, NotRun>>

\* the loop is over: return cnt
RunImputerReturn ==
    /\ run_pc = "predict"
    /\ run_i > Len(run_rows)
    /\ run_pc' = "step 4"
    /\ UNCHANGED <<run_mode, run_rows, run_corpus, run_sklearn, run_cache, run_full, run_imp, run_i, run_cnt,
                   run_log, NotRun>>

\* compute_pmi, step 4: every season row is scored by the v1 engine against
\* the league stats of its season (a legacy season's raw frame holds no
\* steals, blocks or defensive rebounds).  Of what it writes into the row,
\* dpmi is kept.
ComputePmi ==
    /\ run_pc = "step 4"
    /\ run_pc' = "done"
    /\ run_rows' =
          [i \in 1..Len(run_rows) |->
              LET s == run_rows[i]
                  legacy == s.year < FIRST_TRACKED_YEAR
                  row == SeasonRow(s.spg, s.bpg, IF legacy THEN Num(0) ELSE Num(4 * Scale),
                                   Num(2 * Scale))
                  pos_num == PosNum(RowGetStr(PlayerRow(s.pr), "position", Str(<<"S", "F">>)),
                                    POS_MAP_V1)
                  dpmi == ComputeDpmi_v1(row, League(IF legacy THEN "legacy" ELSE "modern"),
                                         pos_num, FALSE)
              IN  [s EXCEPT !.dpmi = Round2F(dpmi)]]
    /\ run_log' = Append(run_log, Logged("compute_pmi", 0))
    /\ UNCHANGED <<run_mode, run_corpus, run_sklearn, run_cache, run_full, run_imp, run_i, run_cnt, NotRun>>

(***************************************************************************)
(* A session of the engines: compute_opmi, compute_dpmi and the two         *)
(* compute_pmi_season are called, in any order, with the same row dict,    *)
(* the same league_stats dict and the same pos_num.  The dicts and the     *)
(* module-level tables are objects a call could write to.                  *)
(***************************************************************************)
EngIdle ==
    /\ eng_pc = "idle" /\ eng_tables = EngineTables /\ eng_row = <<>> /\ eng_league = <<>>
    /\ eng_pos = 0 /\ eng_log = <<>>

MaxEngineCalls == 3
EngineRows ==
    { SeasonRow(Num(15 * Tenth), Num(5 * Tenth), Num(4 * Scale), Num(2 * Scale)),
      SeasonRow(Num(0), Num(0), Num(0), Num(2 * Scale)),
      SeasonRow(NaN, None, Absent, Num(0)),
      [SeasonRow(Num(Scale), Num(2 * Scale), Num(8 * Scale), Num(3 * Scale))
          EXCEPT !.ppg = Num(30 * Scale), !.ts_pct = Num(60 * (Scale \div 100))] }

\* the log entry of a call
EngineCall(fn, is_playoff, out) ==
    [fn |-> fn, is_playoff |-> is_playoff, row |-> eng_row, league_stats |-> eng_league,
     pos_num |-> eng_pos, out |-> out]

EngComputeOpmi ==
    /\ eng_pc = "run"
    /\ Len(eng_log) < MaxEngineCalls
    /\ \E is_playoff \in BOOLEAN :
          LET r == ComputeOpmi_v1(eng_row, eng_league, eng_pos, is_playoff, 2020, eng_tables)
          IN  /\ eng_tables' = r.tables
              /\ eng_log' = Append(eng_log, EngineCall("compute_opmi", is_playoff, r.out))
    /\ UNCHANGED <<eng_pc, eng_row, eng_league, eng_pos, NotEng>>

\* compute_dpmi and compute_pmi_season assign to their local names only
EngComputeDpmi ==
    /\ eng_pc = "run"
    /\ Len(eng_log) < MaxEngineCalls
    /\ \E is_playoff \in BOOLEAN :
          eng_log' = Append(eng_log,
                            EngineCall("compute_dpmi", is_playoff,
                                       ComputeDpmi_v1(eng_row, eng_league, eng_pos, is_playoff)))
    /\ UNCHANGED <<eng_pc, eng_tables, eng_row, eng_league, eng_pos, NotEng>>

EngPmiSeason_v2 ==
    /\ eng_pc = "run"
    /\ Len(eng_log) < MaxEngineCalls
    /\ eng_log' = Append(eng_log,
                         EngineCall("compute_pmi_season_v2", FALSE,
                                    ComputePmiSeason_v2(eng_row, eng_league, eng_pos)))
    /\ UNCHANGED <<eng_pc, eng_tables, eng_row, eng_league, eng_pos, NotEng>>

EngPmiSeason_v3 ==
    /\ eng_pc = "run"
    /\ Len(eng_log) < MaxEngineCalls
    /\ eng_log' = Append(eng_log,
                         EngineCall("compute_pmi_season_v3", FALSE,
                                    ComputePmiSeason_v3(eng_row, eng_league, eng_pos, 2020)))
    /\ UNCHANGED <<eng_pc, eng_tables, eng_row, eng_league, eng_pos, NotEng>>

(***************************************************************************)
(* The wrappers of the calls to the league's API: _api of fetch_nba_data   *)
(* and _safe_api_call of fetch_nba_data_v1.  func is an endpoint class;    *)
(* a call of it returns the endpoint object or raises.                     *)
(***************************************************************************)
ApiIdle ==
    /\ api_gen = "-" /\ api_pc = "idle" /\ api_retries = 0 /\ api_delay = 0
    /\ api_kwargs = <<>> /\ api_attempt = 0 /\ api_outcomes = <<>> /\ api_slept = 0
    /\ api_result = None

MaxRetries == 4
API_DELAY == 6000
SAFE_DELAY == 20000
API_TIMEOUT == 120
SAFE_TIMEOUT == 60

\* the object the n-th call of func returned
Result(n) == [t |-> "result", n |-> n]

\* kwargs["headers"] = HEADERS, and the timeout if the caller gave none
ApiEnter ==
    /\ api_pc = "enter"
    /\ api_kwargs' = [headers |-> "HEADERS",
                      timeout |-> IF api_kwargs.timeout # Absent THEN api_kwargs.timeout
                                  ELSE IF api_gen = "_api" THEN Num(API_TIMEOUT)
                                  ELSE Num(SAFE_TIMEOUT)]
    /\ api_pc' = "loop"
    /\ UNCHANGED <<api_gen, api_retries, api_delay, api_attempt, api_outcomes, api_slept,
                   api_result, NotApi>>

\* func returns, and the loop goes on
ApiCallReturns_continues ==
    /\ api_pc = "loop"
    /\ api_attempt < api_retries
    /\ api_outcomes' = Append(api_outcomes, "ok")
    /\ api_slept' = api_slept + api_delay
    /\ api_result' = Result(Len(api_outcomes) + 1)
    /\ api_attempt' = api_attempt + 1
    /\ UNCHANGED <<api_gen, api_pc, api_retries, api_delay, api_kwargs, NotApi>>

\* result = func(*args, **kwargs); time.sleep(delay); return result
ApiCallReturns ==
    /\ api_pc = "loop"
    /\ api_attempt < api_retries
    /\ api_outcomes' = Append(api_outcomes, "ok")
    /\ api_slept' = api_slept + api_delay
    /\ api_result' = Result(Len(api_outcomes) + 1)
    /\ api_pc' = "returned"
    /\ UNCHANGED <<api_gen, api_retries, api_delay, api_kwargs, api_attempt, NotApi>>

\* func raises: sleep delay * (attempt + 2) and try again, or return None
\* after the last attempt
ApiCallRaises ==
    /\ api_pc = "loop"
    /\ api_attempt < api_retries
    /\ api_outcomes' = Append(api_outcomes, "raise")
    /\ IF api_attempt < api_retries - 1
       THEN /\ api_slept' = api_slept + api_delay * (api_attempt + 2)
            /\ api_attempt' = api_attempt + 1
            /\ UNCHANGED <<api_pc, api_result>>
       ELSE /\ api_pc' = "returned"
            /\ api_result' = None
            /\ UNCHANGED <<api_slept, api_attempt>>
    /\ UNCHANGED <<api_gen, api_retries, api_delay, api_kwargs, NotApi>>

\* range(retries) is used up without a return: the function ends (_api) or
\* returns None (_safe_api_call)
ApiLoopEnds ==
    /\ api_pc = "loop"
    /\ api_attempt >= api_retries
    /\ api_pc' = "returned"
    /\ api_result' = None
    /\ UNCHANGED <<api_gen, api_retries, api_delay, api_kwargs, api_attempt, api_outcomes,
                   api_slept, NotApi>>

(***************************************************************************)
(* merge_historical.main: the historical players and seasons are merged    *)
(* into the cache files of the batch pipeline.  The files hold strings,    *)
(* integers, lists and dicts with string keys, which json.dump and         *)
(* json.load give back as they were.  Of the six totals two are kept, of   *)
(* a season row its label, its year and one stat.                          *)
(***************************************************************************)
\* historical_players.json does not exist
NoFile == [exists |-> FALSE]
MrgIdle ==
    /\ mrg_pc = "idle" /\ mrg_players = <<>> /\ mrg_sd = <<>> /\ mrg_hist = NoFile
    /\ mrg_hist_seasons = <<>> /\ mrg_out = <<>>

MERGE_STATS == {"PTS", "STL"}

\* a season row of a player; the label of a season is its first year
MergeRow(year, ppg) == [season |-> year, year |-> year, ppg |-> ppg]

\* list.sort(key=lambda s: s.get("year", 0)): a stable sort
RECURSIVE SortByYear(_)
SortByYear(rows) ==
    IF rows = <<>> THEN <<>>
    ELSE LET head == SortByYear(SubSeq(rows, 1, Len(rows) - 1))
             last == rows[Len(rows)]
             before == SelectSeq(head, LAMBDA r : r.year <= last.year)
             after == SelectSeq(head, LAMBDA r : r.year > last.year)
         IN  before \o <<last>> \o after

\* the (season, stype) pairs of a player's rows
ExistingSeasons(p) ==
    {<<p.regular[i].season, "regular">> : i \in DOMAIN p.regular}
        \cup {<<p.playoffs[i].season, "playoffs">> : i \in DOMAIN p.playoffs}

\* for s in hist_p[stype]: s is appended unless (s["season"], stype) is in
\* existing_seasons, and is then added to existing_seasons
RECURSIVE AppendNew(_, _, _, _)
AppendNew(rows, hist_rows, stype, existing) ==
    IF hist_rows = <<>> THEN [rows |-> rows, existing |-> existing]
    ELSE LET s == Head(hist_rows)
         IN  IF <<s.season, stype>> \notin existing
             THEN AppendNew(Append(rows, s), Tail(hist_rows), stype,
                            existing \cup {<<s.season, stype>>})
             ELSE AppendNew(rows, Tail(hist_rows), stype, existing)

\* the larger of the two totals, stat by stat
MergeTotals(batch_totals, hist_totals) ==
    [stat \in MERGE_STATS |->
        IF hist_totals[stat] > batch_totals[stat] THEN hist_totals[stat]
        ELSE batch_totals[stat]]

\* position, height and height_inches are taken from the historical player
\* where it has them, if the batch player has no height_inches
MergeInfo(batch_info, hist_info) ==
    IF batch_info.height_inches = 0
    THEN [key \in {"position", "height", "height_inches"} |->
            IF hist_info[key] # (IF key = "height_inches" THEN 0 ELSE "")
            THEN hist_info[key] ELSE batch_info[key]]
    ELSE batch_info

\* a player of both files
MergePlayer(batch_p, hist_p) ==
    LET existing == ExistingSeasons(batch_p)
        reg == AppendNew(batch_p.regular, hist_p.regular, "regular", existing)
        ply == AppendNew(batch_p.playoffs, hist_p.playoffs, "playoffs", reg.existing)
    IN  [regular |-> SortByYear(reg.rows),
         playoffs |-> SortByYear(ply.rows),
         totals_regular |-> MergeTotals(batch_p.totals_regular, hist_p.totals_regular),
         totals_playoffs |-> MergeTotals(batch_p.totals_playoffs, hist_p.totals_playoffs),
         info |-> MergeInfo(batch_p.info, hist_p.info)]

\* the players: merged if in both files, added as they are if new
MergePlayers(batch_players, hist_players) ==
    [pid \in DOMAIN batch_players \cup DOMAIN hist_players |->
        IF pid \notin DOMAIN hist_players THEN batch_players[pid]
        ELSE IF pid \in DOMAIN batch_players
        THEN MergePlayer(batch_players[pid], hist_players[pid])
        ELSE hist_players[pid]]

\* a historical season row in the column names of the batch's season frames
ApiRow(r, label) ==
    [PLAYER_ID |-> 0, GP |-> r.gp, PTS |-> r.ppg, _SEASON |-> label, _YEAR |-> r.year]

\* the season data: a historical season-type is added if the batch has none
\* of that label
MergeSeasonData(batch_sd, hist_seasons) ==
    [key \in DOMAIN batch_sd \cup DOMAIN hist_seasons |->
        IF key \in DOMAIN batch_sd THEN batch_sd[key]
        ELSE [i \in DOMAIN hist_seasons[key] |-> ApiRow(hist_seasons[key][i], key[2])]]

MaxMerges == 2

\* main(): nothing is written if historical_players.json does not exist
Main ==
    /\ mrg_pc = "run"
    /\ Len(mrg_out) < MaxMerges + 1
    /\ IF mrg_hist = NoFile
       THEN UNCHANGED <<mrg_players, mrg_sd>>
       ELSE /\ mrg_players' = MergePlayers(mrg_players, mrg_hist)
            /\ mrg_sd' = MergeSeasonData(mrg_sd, mrg_hist_seasons)
    /\ mrg_out' = Append(mrg_out, [players |-> mrg_players', sd |-> mrg_sd'])
    /\ UNCHANGED <<mrg_pc, mrg_hist, mrg_hist_seasons, NotMrg>>

(***************************************************************************)
(* Specifications.                                                         *)
(***************************************************************************)
\* _z: the arguments of the call to come
InitZ ==
    /\ z_gen = "-"
    /\ z_val \in ZVals
    /\ z_mean \in ZMeans
    /\ z_std \in ZStds
    /\ z_out = None
    /\ EraIdle /\ PwIdle /\ ImpIdle /\ CarIdle /\ CallIdle /\ RunIdle /\ EngIdle /\ ApiIdle /\ MrgIdle
SpecZ == InitZ /\ [][CallZ_v1 \/ CallZ_v2 \/ CallZ_v3]_vars

\* _get_era_deflators: the argument of the call to come
InitEra ==
    /\ era_pc = "input"
    /\ era_season \in FirstYear..LastYear
    /\ era_out = NoDeflators
    /\ ZIdle /\ PwIdle /\ ImpIdle /\ CarIdle /\ CallIdle /\ RunIdle /\ EngIdle /\ ApiIdle /\ MrgIdle
SpecEra == InitEra /\ [][CallEraDeflators]_vars

\* the stat and the two positions whose weights are resolved
InitPw ==
    /\ pw_gen = "-"
    /\ pw_stat \in Stats
    /\ pw_p1 \in Positions
    /\ pw_p2 \in Positions
    /\ pw_w1 = 0
    /\ pw_w2 = 0
    /\ ZIdle /\ EraIdle /\ ImpIdle /\ CarIdle /\ CallIdle /\ RunIdle /\ EngIdle /\ ApiIdle /\ MrgIdle
SpecPw == InitPw /\ [][ResolveWeight_v1 \/ ResolveWeight_v2 \/ ResolveWeight_v3]_vars

\* a new DefensiveStatImputer
InitImp == ImpIdle /\ ZIdle /\ EraIdle /\ PwIdle /\ CarIdle /\ CallIdle /\ RunIdle /\ EngIdle /\ ApiIdle /\ MrgIdle
SpecImp == InitImp /\ [][CallTrain \/ CallPredict]_vars

\* a career, scored by one engine generation as its seasons accumulate;
\* total_gp and league_mean are arguments of v1 only
InitCar ==
    /\ car_gen \in {"v1", "v2", "v3"}
    /\ car_seasons = <<>>
    /\ car_playoff \in BOOLEAN
    /\ car_total_gp \in (IF car_gen = "v1" THEN CareerGames ELSE {0})
    /\ car_league_mean \in (IF car_gen = "v1" THEN LeagueMeans ELSE {0})
    /\ car_last = NoCall
    /\ car_prev = NoCall
    /\ ZIdle /\ EraIdle /\ PwIdle /\ ImpIdle /\ CallIdle /\ RunIdle /\ EngIdle /\ ApiIdle /\ MrgIdle
SpecCar ==
    InitCar /\ [][AddSeason \/ CallCareer_v1 \/ CallCareer_v2 \/ CallCareer_v3]_vars

\* one function and the arguments of the call to come
InitCall ==
    /\ call_pc = "input"
    /\ call_fn \in DOMAIN CallArgs
    /\ call_args \in CallArgs[call_fn]
    /\ call_out = None
    /\ ZIdle /\ EraIdle /\ PwIdle /\ ImpIdle /\ CarIdle /\ RunIdle /\ EngIdle /\ ApiIdle /\ MrgIdle
SpecCall ==
    InitCall /\ [][CallCareerEach \/ CallComputeDpmi \/ CallPmiSeason_v2 \/ CallPmiSeason_v3
                   \/ CallLeagueStats_v1 \/ CallLeagueStats_v2 \/ CallLeagueStats_v3
                   \/ CallPosNum_v1 \/ CallPosNum_v3 \/ CallPosNum_imputer
                   \/ CallCareerShrinkage \/ CallLegacySeason
                   \/ CallPipelineScores]_vars

\* run_ingestion after build_players (a full run), or after the cache files
\* of some earlier run are loaded (a recompute run)
InitRun ==
    /\ run_mode \in {"full", "recompute"}
    /\ run_pc = (IF run_mode = "full" THEN "cache" ELSE "step 4")
    /\ run_rows \in RunRowLists
    /\ run_corpus \in (IF run_mode = "full"
                       THEN {Df(name) : name \in {"empty", "fifty", "just short", "tie", "big"}}
                       ELSE {NoFrame})
    /\ run_sklearn \in (IF run_mode = "full" THEN BOOLEAN ELSE {TRUE})
    /\ run_imp = ImputerNew
    /\ run_i = 0
    /\ run_cnt = 0
    /\ run_log = <<>>
    /\ run_cache = (IF run_mode = "full" THEN <<>> ELSE run_rows)
    /\ run_full = <<>>
    /\ ZIdle /\ EraIdle /\ PwIdle /\ ImpIdle /\ CarIdle /\ CallIdle /\ EngIdle /\ ApiIdle /\ MrgIdle
SpecRun ==
    InitRun /\ [][CacheData \/ RunImputerTrain \/ RunImputerPredict \/ RunImputerReturn
                  \/ ComputePmi \/ LoadCache]_vars

\* a call of a wrapper with the caller's retries, delay and timeout
InitApi ==
    /\ api_gen \in {"_api", "_safe_api_call"}
    /\ api_pc = "enter"
    /\ api_retries \in 0..MaxRetries
    /\ api_delay \in {0, API_DELAY, SAFE_DELAY}
    /\ api_kwargs \in [timeout : {Absent, Num(SAFE_TIMEOUT)}]
    /\ api_attempt = 0
    /\ api_outcomes = <<>>
    /\ api_slept = 0
    /\ api_result = None
    /\ ZIdle /\ EraIdle /\ PwIdle /\ ImpIdle /\ CarIdle /\ CallIdle /\ RunIdle /\ EngIdle /\ MrgIdle
SpecApi ==
    InitApi /\ [][ApiEnter \/ ApiCallReturns \/ ApiCallRaises \/ ApiLoopEnds]_vars

\* the files before the merge.  Player 23 may be in the batch, in the
\* historical file or in both; player 7 is in the batch only
MaxMergeRows == 2
MergeRows == {MergeRow(1984, 28), MergeRow(1996, 30), MergeRow(1996, 12), MergeRow(1959, 37)}
MergeRowLists == UNION {[1..n -> MergeRows] : n \in 0..MaxMergeRows}
Totals(pts, stl) == [PTS |-> pts, STL |-> stl]
Info(position, height, height_inches) ==
    [position |-> position, height |-> height, height_inches |-> height_inches]
BatchPlayers ==
    LET seven == [regular |-> <<MergeRow(1996, 9)>>, playoffs |-> <<>>,
                  totals_regular |-> Totals(700, 80), totals_playoffs |-> Totals(0, 0),
                  info |-> Info("G", "6-3", 75)]
        p23(regular, info) ==
            [regular |-> regular, playoffs |-> <<MergeRow(1996, 31)>>,
             totals_regular |-> Totals(5000, 300), totals_playoffs |-> Totals(600, 0),
             info |-> info]
    IN  { [pid \in {"7"} |-> seven],
          [pid \in {"7", "23"} |->
              IF pid = "7" THEN seven
              ELSE p23(<<MergeRow(1996, 30), MergeRow(1997, 29)>>, Info("G", "6-6", 78))],
          [pid \in {"7", "23"} |->
              IF pid = "7" THEN seven ELSE p23(<<MergeRow(1997, 29)>>, Info("SF", "", 0))] }
HistPlayers ==
    { [pid \in {"23"} |->
          [regular |-> regular, playoffs |-> playoffs, totals_regular |-> totals,
           totals_playoffs |-> Totals(500, 40), info |-> info]] :
        regular \in MergeRowLists,
        playoffs \in {<<>>, <<MergeRow(1984, 29), MergeRow(1996, 31)>>},
        totals \in {Totals(32000, 250), Totals(4000, 2500)},
        info \in {Info("G", "6-6", 78), Info("G", "", 0)} }
BatchSeasonData ==
    { [key \in {<<"regular", 1996>>} |-> <<[PLAYER_ID |-> 23, GP |-> 82, PTS |-> 30,
                                            _SEASON |-> 1996, _YEAR |-> 1996]>>] }
HistSeasons ==
    { [key \in keys |-> <<[gp |-> 82, ppg |-> 28, year |-> key[2]]>>] :
        keys \in SUBSET {<<"regular", 1984>>, <<"regular", 1996>>, <<"playoffs", 1984>>} }
InitMrg ==
    /\ mrg_pc = "run"
    /\ mrg_players \in BatchPlayers
    /\ mrg_sd \in BatchSeasonData
    /\ mrg_hist \in HistPlayers \cup {NoFile}
    /\ mrg_hist_seasons \in (IF mrg_hist = NoFile THEN {<<>>} ELSE HistSeasons)
    /\ mrg_out = <<[players |-> mrg_players, sd |-> mrg_sd]>>
    /\ ZIdle /\ EraIdle /\ PwIdle /\ ImpIdle /\ CarIdle /\ CallIdle /\ RunIdle /\ EngIdle /\ ApiIdle
SpecMrg == InitMrg /\ [][Main]_vars

InitEng ==
    /\ eng_pc = "run"
    /\ eng_tables = EngineTables
    /\ eng_row \in EngineRows
    /\ eng_league \in Leagues
    /\ eng_pos \in PosNums
    /\ eng_log = <<>>
    /\ ZIdle /\ EraIdle /\ PwIdle /\ ImpIdle /\ CarIdle /\ CallIdle /\ RunIdle /\ ApiIdle /\ MrgIdle
SpecEng ==
    InitEng /\ [][EngComputeOpmi \/ EngComputeDpmi \/ EngPmiSeason_v2 \/ EngPmiSeason_v3]_vars

(***************************************************************************)
(* Properties.                                                             *)
(***************************************************************************)
ZCalled == z_gen # "-"
ZFiniteArgs == IsNum(z_val) /\ IsNum(z_mean) /\ IsNum(z_std)

\* C1: in every generation, for finite value and mean and a finite non-zero
\* std, the normalizer returns a number within [-C, C], C the generation's clamp.
C1_ZWithinClamp ==
    (ZCalled /\ ZFiniteArgs /\ z_std.n # 0)
        => /\ IsNum(z_out)
           /\ -ClampOf(z_gen) <= z_out.n
           /\ z_out.n <= ClampOf(z_gen)

\* a call whose raw quotient exceeds the clamp and that returned the clamp
C1_Witness ==
    /\ ZCalled /\ ZFiniteArgs /\ z_std.n > 0
    /\ z_val.n - z_mean.n > 4 * z_std.n
    /\ z_out = Num(ClampOf(z_gen))

\* C2: in every generation, with std = 0 the normalizer returns exactly 0,
\* whatever value and mean are: no exception, no NaN.
C2_ZeroStdIsZero ==
    (ZCalled /\ IsNum(z_std) /\ z_std.n = 0) => z_out = Num(0)

\* a call with std = 0 and a finite value away from the mean
C2_Witness ==
    /\ ZCalled /\ ZFiniteArgs /\ z_std.n = 0
    /\ z_val.n # z_mean.n
    /\ z_out = Num(0)

\* C3: in every generation, the normalizer returns 0 and does not raise when
\* any of value, mean, std is None or NaN.
C3_MissingIsZero ==
    (ZCalled /\ (IsNA(z_val) \/ IsNA(z_mean) \/ IsNA(z_std))) => z_out = Num(0)

EraCalled == era_pc = "done"
RefEraYears == 2010..2019

\* C4: every multiplier _get_era_deflators returns is at most 1.0, and for the
\* season years of the reference era (2010-2019) the three are exactly 1.0.
C4_DeflatorsAtMostOne ==
    EraCalled =>
        /\ \A s \in {"stl", "blk", "trb"} : era_out[s] <= Scale
        /\ era_season \in RefEraYears =>
               \A s \in {"stl", "blk", "trb"} : era_out[s] = Scale

\* the deflators of a reference-era year, all 1.0, next to which stand years
\* that do deflate (1978: steals 0.72 / 1.20)
C4_Witness ==
    /\ EraCalled
    /\ era_season \in RefEraYears
    /\ era_out = [stl |-> Scale, blk |-> Scale, trb |-> Scale]
    /\ GetEraDeflators(1978).stl < Scale

PwResolved == pw_gen # "-"

\* C5: in every generation the position-resolved weight of a stat that favors
\* centers (blocks, offensive and defensive rebounds) does not decrease from a
\* position to a position nearer the center.
C5_CenterStatsMonotone ==
    (PwResolved /\ pw_stat \in CenterStats
        /\ Scale <= pw_p1 /\ pw_p1 <= pw_p2 /\ pw_p2 <= 5 * Scale) => pw_w1 <= pw_w2

Predicted == imp_op = "predict"

\* C6: after a successful train(), every pair (stl, blk) that predict returns
\* has 0 <= stl <= stl_cap and 0 <= blk <= blk_cap, the ceilings the imputer
\* stores.
C6_PredictionWithinCaps ==
    (Predicted /\ imp.is_trained /\ imp_ret.kind = "pred") =>
        /\ 0 <= imp_ret.stl /\ imp_ret.stl <= imp.stl_cap
        /\ 0 <= imp_ret.blk /\ imp_ret.blk <= imp.blk_cap

\* C7: predict on an imputer that was never trained returns exactly
\* (0.0, 0.0), whatever the row, and does not raise.
C7_UntrainedPredictsZero ==
    (Predicted /\ ~imp.is_trained) => imp_ret = RetPred(0, 0)

\* an untrained imputer, a train that failed before, asked about a row that
\* carries data
C7_Witness ==
    /\ Predicted
    /\ ~imp.is_trained
    /\ imp_calls > 1
    /\ imp_row = PlayerRow("legacy center")
    /\ imp_ret = RetPred(0, 0)

QualifyingRows(season_df) == NumRows(Filtered(season_df.rows, season_df.columns))

C9_ZeroGamesGivesBaseline ==
    car_last.called =>
        /\ (car_gen = "v1" /\ car_total_gp = 0) => car_last.out = Num(car_league_mean)
        /\ (car_gen # "v1" /\ SeasonGames(car_last.seasons) = 0) => car_last.out = Num(0)

\* the call before scored a non-empty list and this call scored that list
\* with one more season, at least as good as the best of them
BetterSeasonAdded ==
    /\ car_gen = "v1"
    /\ car_last.called /\ car_prev.called
    /\ car_prev.seasons # <<>>
    /\ Len(car_last.seasons) = Len(car_prev.seasons) + 1
    /\ SubSeq(car_last.seasons, 1, Len(car_prev.seasons)) = car_prev.seasons
    /\ \A i \in 1..Len(car_prev.seasons) :
          car_prev.seasons[i].pmi.n <= car_last.seasons[Len(car_last.seasons)].pmi.n

\* C10: under v1's rank weighting, with total_gp, is_playoff and league_mean
\* fixed, scoring a non-empty list again after adding one season at least as
\* good as its best never gives a lower career score.
C10_BetterSeasonNeverLowers ==
    BetterSeasonAdded => car_last.out.n >= car_prev.out.n

\* a better season was added to a career with games played and the score rose
C10_Witness ==
    /\ BetterSeasonAdded
    /\ car_total_gp > 0
    /\ car_last.out.n > car_prev.out.n

CareerScored == call_pc = "done" /\ call_fn = "compute_career_pmi"

\* C11 as stated: for the seasons (82 games, 10.0, m1) and (10 games, -5.0, m2)
\* with m1 > m2 > 0, the rank-weighted v1 career score is strictly greater
\* than the minutes-weighted v2 and v3 career scores.
C11_RankWeightedAbove ==
    CareerScored =>
        /\ call_out.v1.n > call_out.v2.n
        /\ call_out.v1.n > call_out.v3.n

\* C11 amended: for those two seasons the rank-weighted v1 career score is
\* strictly less than the minutes-weighted v2 and v3 career scores.
C11_RankWeightedBelow ==
    CareerScored =>
        /\ IsNum(call_out.v1) /\ IsNum(call_out.v2) /\ IsNum(call_out.v3)
        /\ call_out.v1.n < call_out.v2.n
        /\ call_out.v1.n < call_out.v3.n

C11_Witness ==
    /\ CareerScored
    /\ call_args = [m1 |-> 36 * Scale, m2 |-> 135 * Tenth]
    /\ call_out.v1.n < call_out.v3.n

DpmiCalled ==
    call_pc = "done" /\ call_fn \in {"compute_dpmi", "compute_pmi_season_v2", "compute_pmi_season_v3"}
\* the dpmi a defensive calculation returned
DpmiOut ==
    IF call_fn = "compute_dpmi" \/ call_out.t # "dict" THEN call_out ELSE call_out.dpmi

\* C12: in v1 compute_dpmi and in v2 and v3 compute_pmi_season, a row whose
\* steals and blocks are both literal 0 yields dpmi exactly 0, whatever the
\* league mean and std.
C12_NoDefensiveDataScoresZero ==
    (DpmiCalled /\ call_args.row.spg = Num(0) /\ call_args.row.bpg = Num(0)) =>
        DpmiOut = Num(0)

NoDefensiveStat(row) ==
    \A k \in {"spg", "bpg", "drb_pg"} : row[k] \in {Num(0), None, Absent}

\* C13: v1 compute_dpmi returns exactly 0.0 for every row whose steals, blocks
\* and defensive rebounds are all zero or absent, for any league stats,
\* position and competition type, and returns the weighted z-score sum when at
\* least one of the three is non-zero.
C13_SentinelZero ==
    (call_pc = "done" /\ call_fn = "compute_dpmi") =>
        IF NoDefensiveStat(call_args.row)
        THEN call_out = Num(0)
        ELSE call_out = DpmiSum_v1(call_args.row, call_args.league_stats,
                                   call_args.pos_num, call_args.is_playoff)

\* a row without defensive stats whose weighted sum would not have been 0
C13_Witness ==
    /\ call_pc = "done" /\ call_fn = "compute_dpmi"
    /\ NoDefensiveStat(call_args.row)
    /\ call_args.row.spg = Absent
    /\ DpmiSum_v1(call_args.row, call_args.league_stats, call_args.pos_num,
                  call_args.is_playoff).n < 0
    /\ call_out = Num(0)

LeagueStatsCalled ==
    /\ call_pc = "done"
    /\ call_fn \in {"compute_season_league_stats_v1", "compute_season_league_stats_v2",
                    "compute_season_league_stats_v3"}
\* the points z-score of a 30-point row against the returned league stats
Z30 == ZOf(Z_v3, Num(30 * Scale), call_out, "ppg")

\* C14 as stated: for three rows scoring 10, 20 and 30 points a game the
\* returned points mean is 20 and the points std is the population standard
\* deviation, about 8.16, so that the 30-point row's z-score is about 1.22.
C14_PopulationStd ==
    (LeagueStatsCalled /\ call_args.df = LeagueDf("three")) =>
        /\ call_out["ppg"].mean = Num(20 * Scale)
        /\ Abs(call_out["ppg"].std.n - 81650) <= 100
        /\ Abs(Z30.n - 12247) <= 100

\* C14 amended: for those three rows the returned points mean is 20 and the
\* points std is the sample standard deviation (variance 200/2), exactly 10,
\* so that the 30-point row's z-score is 1.0.
C14_SampleStd ==
    (LeagueStatsCalled /\ call_args.df = LeagueDf("three")) =>
        /\ call_out["ppg"].mean = Num(20 * Scale)
        /\ call_out["ppg"].std = Num(10 * Scale)
        /\ Z30 = Num(Scale)

C14_Witness ==
    /\ LeagueStatsCalled /\ call_fn = "compute_season_league_stats_v3"
    /\ call_args.df = LeagueDf("three")
    /\ call_out["ppg"].std = Num(10 * Scale)

\* C19: in every generation and for every population, a constant category and
\* a single row included, every standard deviation that
\* compute_season_league_stats returns is at least the floor 0.001.
C19_StdAtLeastFloor ==
    LeagueStatsCalled =>
        \A stat \in DOMAIN call_out :
            IsNum(call_out[stat].std) /\ call_out[stat].std.n >= STD_FLOOR_V3

\* C15: once the imputer is trained, no later train or predict call changes
\* its models, scalers, ceilings or quality scores, and is_trained never
\* returns to false.
C15_TrainedIsImmutable ==
    [][imp.is_trained => imp' = imp]_vars

PosNumCalled ==
    call_pc = "done" /\ call_fn \in {"pos_num_v1", "pos_num_v3", "pos_num_imputer"}

\* the parts of a label between its separators "-" and "/"
RECURSIVE Parts(_)
Parts(s) ==
    LET i == Find(s, "-")
        j == Find(s, "/")
        k == IF i = 0 THEN j ELSE IF j = 0 THEN i ELSE IF i < j THEN i ELSE j
    IN  IF k = 0 THEN {s} ELSE {SubSeq(s, 1, k - 1)} \cup Parts(SubSeq(s, k + 1, Len(s)))

\* a label is recognized when one of its parts is, whatever its case and the
\* blanks around it, a key of the position table
Recognized(label) ==
    \E part \in Parts(label), key \in DOMAIN POS_MAP :
        StrUpper(StrStrip(part)) = StrUpper(key)

\* C17: _pos_num returns a value in [1.0, 5.0] without raising, and exactly
\* 3.0 when the label is missing (None, empty, NaN) or not recognized.
C17_PosNumTotal ==
    PosNumCalled =>
        /\ IsNum(call_out)
        /\ Scale <= call_out.n /\ call_out.n <= 5 * Scale
        /\ (call_args.pos_str.k # "str" \/ ~Recognized(call_args.pos_str.s)) =>
               call_out = Num(POS_DEFAULT)

C17_Witness ==
    /\ PosNumCalled
    /\ call_args.pos_str = Str(<<"W", "i", "n", "g">>)
    /\ call_out = Num(POS_DEFAULT)

\* what C18 expects of the hybrid labels and of the full words
ExpectedPos ==
    (<<"G", "u", "a", "r", "d", "-", "F", "o", "r", "w", "a", "r", "d">> :> (5 * Scale) \div 2)
    @@ (<<"G", "-", "F">> :> (5 * Scale) \div 2)
    @@ (<<"F", "-", "G">> :> (5 * Scale) \div 2)
    @@ (<<"F", "-", "C">> :> (9 * Scale) \div 2)
    @@ (<<"F", "o", "r", "w", "a", "r", "d", "-", "C", "e", "n", "t", "e", "r">> :> (9 * Scale) \div 2)
    @@ (<<"C", "-", "F">> :> (9 * Scale) \div 2)
    @@ (<<"G", "u", "a", "r", "d">> :> (3 * Scale) \div 2)
    @@ (<<"F", "o", "r", "w", "a", "r", "d">> :> (7 * Scale) \div 2)
    @@ (<<"C", "e", "n", "t", "e", "r">> :> 5 * Scale)

\* C18: _pos_num maps a hybrid label of two recognized parts to the midpoint of
\* the two (2.5 for guard-forward, 4.5 for forward-center) and the full words
\* Guard, Forward and Center to 1.5, 3.5 and 5.
C18_HybridMidpoint ==
    (PosNumCalled /\ call_args.pos_str.k = "str" /\ call_args.pos_str.s \in DOMAIN ExpectedPos) =>
        call_out = Num(ExpectedPos[call_args.pos_str.s])

\* the greatest bracket start year that is at most season_year
LatestStart(season_year) ==
    CHOOSE b \in Range(ERA_KEYS) :
        b <= season_year /\ \A c \in Range(ERA_KEYS) : c <= season_year => c <= b

C16_TrainThenPredictThenScore ==
    \A i \in DOMAIN run_log :
        run_log[i].op = "predict" =>
            /\ \E j \in 1..(i - 1) : run_log[j].op = "train"
            /\ run_imp.is_trained
            /\ \A j \in 1..(i - 1) : run_log[j].op # "compute_pmi"
            /\ run_rows[run_log[i].row].imputed_defense
            /\ run_pc # "done" => run_rows[run_log[i].row].dpmi = Absent

\* a full run that imputed a legacy row and then scored it
C16_Witness ==
    /\ run_pc = "done"
    /\ Len(run_log) = 3
    /\ run_log[1].op = "train" /\ run_log[2].op = "predict" /\ run_log[3].op = "compute_pmi"
    /\ run_rows[run_log[2].row].imputed_defense
    /\ run_rows[run_log[2].row].dpmi # Absent

\* the rows of df that play min_mpg minutes or more (all rows when df has no
\* minutes column)
Passing(df, min_mpg) ==
    {i \in 1..Len(df.rows) :
        "mpg" \in df.columns =>
            IsNum(df.rows[i]["mpg"]) /\ df.rows[i]["mpg"].n >= min_mpg * Scale}

\* C21: compute_season_league_stats of v2 and v3 takes mean and std over the
\* rows passing the minutes filter when at least 20 rows pass, and over the
\* whole input when fewer than 20 pass.
C21_FilterOrFallback ==
    (call_pc = "done" /\ call_fn \in {"compute_season_league_stats_v2",
                                      "compute_season_league_stats_v3"}) =>
        LET df == call_args.df
            min_mpg == IF call_fn = "compute_season_league_stats_v2"
                       THEN MIN_LEAGUE_MPG_V2 ELSE MIN_LEAGUE_MPG_V3
            passing == Passing(df, min_mpg)
            population == IF Cardinality(passing) >= 20 THEN passing ELSE 1..Len(df.rows)
        IN  \A stat \in LEAGUE_COLS_V23 \cap df.columns :
                LET cells == {i \in population : IsNum(df.rows[i][stat])}
                    total == SumSeq([i \in 1..Len(df.rows) |->
                                        IF i \in cells THEN df.rows[i][stat].n ELSE 0])
                    mean == DivRound(total, Cardinality(cells))
                    squares == SumSeq([i \in 1..Len(df.rows) |->
                                          IF i \in cells
                                          THEN ScaledMul(df.rows[i][stat].n - mean,
                                                         df.rows[i][stat].n - mean)
                                          ELSE 0])
                IN  /\ cells # {} => call_out[stat].mean = Num(mean)
                    /\ (Cardinality(cells) > 1
                        /\ squares >= Cardinality(cells) - 1) =>
                           call_out[stat].std =
                               Num(FSqrt(DivRound(squares, Cardinality(cells) - 1)))

\* v3 on 25 rows of which 21 play 15 minutes or more: the four bench rows
\* (0 points) are left out of the points mean, 410 / 21
C21_Witness ==
    /\ call_pc = "done"
    /\ call_fn = "compute_season_league_stats_v3"
    /\ call_args.df = LeagueDf("bench")
    /\ call_out["ppg"].mean = Num(195238)

\* C22: compute_opmi, compute_dpmi and compute_pmi_season leave the row, the
\* league_stats and the module-level coefficient tables as they were, so in
\* any sequence of calls two calls with the same arguments return the same
\* (a playoff call followed by a regular-season call included).
C22_NoSideEffects ==
    /\ eng_tables = EngineTables
    /\ \A i \in DOMAIN eng_log :
          /\ eng_log[i].row = eng_row
          /\ eng_log[i].league_stats = eng_league
          /\ \A j \in DOMAIN eng_log :
                (eng_log[i].fn = eng_log[j].fn /\ eng_log[i].is_playoff = eng_log[j].is_playoff)
                    => eng_log[i].out = eng_log[j].out

\* a regular-season compute_opmi, a playoff one and a regular-season one again:
\* the playoff call used other weights, the third returns what the first did
C22_Witness ==
    /\ Len(eng_log) = 3
    /\ \A i \in 1..3 : eng_log[i].fn = "compute_opmi" /\ eng_log[i].out.t = "num"
    /\ ~eng_log[1].is_playoff /\ eng_log[2].is_playoff /\ ~eng_log[3].is_playoff
    /\ eng_log[2].out # eng_log[1].out
    /\ eng_log[3].out = eng_log[1].out

\* C23: the feature vector a trained imputer's predict passes to the models
\* has the training shape, one entry per TRAINING_FEATURES name in that
\* order, and the post-1973 features (orb_pg, drb_pg, tov_pg) are 0 in it
\* even when the row has a value for them.
C23_FeatureVectorShape ==
    (imp_op = "predict" /\ imp.is_trained) =>
        /\ Len(imp_X) = Len(TRAINING_FEATURES)
        /\ \A i \in 1..Len(TRAINING_FEATURES) :
              LET feat == TRAINING_FEATURES[i]
              IN  /\ feat \in Range(POST_73_FEATURES) => imp_X[i] = Num(0)
                  /\ (feat \in Range(UNIVERSAL_FEATURES) /\ IsNum(imp_row[feat])
                      /\ imp_row[feat] # Num(0)) => imp_X[i] = imp_row[feat]

\* a row with 2.0 offensive rebounds, 4.0 defensive rebounds and 2.0 turnovers
C23_Witness ==
    /\ imp_op = "predict" /\ imp.is_trained
    /\ imp_row = PlayerRow("modern")
    /\ imp_row["orb_pg"] = Num(2 * Scale)
    /\ imp_X[11] = Num(0) /\ imp_X[12] = Num(0) /\ imp_X[13] = Num(0)
    /\ imp_ret.kind = "pred"

ShrinkageCalled == call_pc = "done" /\ call_fn = "compute_career_pmi: trust"
ShrinkageGames == SeasonGames(call_args.seasons)
ShrinkageHalf == GpHalf(call_args.gen, call_args.is_playoff)
\* x lies between a and b, whichever is the greater, give or take tol
Between(a, b, x, tol) ==
    /\ (IF a < b THEN a ELSE b) - tol <= x
    /\ x <= (IF a < b THEN b ELSE a) + tol
HalfLivesOrdered ==
    /\ GP_HALF_PLAYOFF_V1 < GP_HALF_REG_V1
    /\ GP_HALF_PLAYOFF_V2 < GP_HALF_REG_V2
    /\ GP_HALF_PLAYOFF_V3 < GP_HALF_REG_V3

\* C24 as stated: in every generation's compute_career_pmi, for total games
\* >= 0, trust lies in [0, 1) and is exactly 1/2 when total_gp is the
\* half-life, the result lies between the baseline and the weighted season
\* average, and the post-season half-life is strictly smaller than the
\* regular-season one.
C24_ShrinkageBetween ==
    ShrinkageCalled =>
        /\ 0 <= call_out.trust /\ call_out.trust < Scale
        /\ ShrinkageGames = ShrinkageHalf => call_out.trust = Scale \div 2
        /\ Between(call_args.league_mean, call_out.career_avg, call_out.career.n, 0)
        /\ HalfLivesOrdered

\* C24 amended: the same, the result lying between the baseline and the
\* weighted season average up to the rounding of the returned value (half a
\* hundredth in v2 and v3, which round to 2 decimals; v1 rounds to 4).
C24_ShrinkageBetweenRounded ==
    ShrinkageCalled =>
        /\ 0 <= call_out.trust /\ call_out.trust < Scale
        /\ ShrinkageGames = ShrinkageHalf => call_out.trust = Scale \div 2
        /\ Between(call_args.league_mean, call_out.career_avg, call_out.career.n,
                   IF call_args.gen = "v1" THEN 0 ELSE Scale \div 200)
        /\ HalfLivesOrdered

\* v3, one regular season of 82 games scoring 10.0: trust 1/2, career 5.0
C24_Witness ==
    /\ ShrinkageCalled
    /\ call_args.gen = "v3" /\ ~call_args.is_playoff
    /\ Len(call_args.seasons) = 1 /\ ShrinkageGames = GP_HALF_REG_V3
    /\ call_out.trust = Scale \div 2
    /\ call_out.career_avg = 10 * Scale
    /\ call_out.career = Num(5 * Scale)

\* a row run_imputer imputes: before 1974, no steals and no blocks (missing
\* counts as none)
LegacyWithoutDefense(s) ==
    /\ s.year < 1974
    /\ s.spg \in {Num(0), None, Absent}
    /\ s.bpg \in {Num(0), None, Absent}

\* a step of run_imputer changes a row only if it is a legacy row without
\* steals and blocks, and flags it; a return without a trained imputer has
\* changed and flagged nothing and counts 0
ImputerStep ==
    run_pc \in {"step 3b", "predict"} =>
        /\ \A i \in DOMAIN run_rows :
              run_rows'[i] # run_rows[i] =>
                  /\ LegacyWithoutDefense(run_rows[i])
                  /\ run_rows'[i].imputed_defense
                  /\ run_imp.is_trained
        /\ (run_pc' = "step 4" /\ ~run_imp'.is_trained) =>
              /\ run_rows' = run_rows
              /\ \A i \in DOMAIN run_rows : ~run_rows'[i].imputed_defense
              /\ run_cnt' = 0

\* C25: run_imputer modifies a season row only if its year is before 1974 and
\* both its steals and blocks are zero; every row it modifies gets
\* imputed_defense = true and every other row is left as it was; when the
\* imputer is not trained no row is modified, none is flagged and the count
\* returned is 0.
C25_ImputesOnlyLegacyRows == [][ImputerStep]_vars

\* run_imputer has returned 1: of a legacy row without steals and blocks and
\* a row of 1974 without them, the first is imputed and the second is not
C25_Witness ==
    /\ run_pc = "step 4" /\ run_mode = "full"
    /\ run_imp.is_trained
    /\ Len(run_rows) = 2
    /\ run_rows[1].year = 1965 /\ run_rows[1].imputed_defense
    /\ run_rows[2] = RunRow(1974, Num(0), Num(0), "legacy center")
    /\ run_cnt = 1

\* a recompute run has ended that read the cache files of the full run
\* before it
RecomputedAfterFull == run_mode = "recompute" /\ run_pc = "done" /\ run_full # <<>>

\* C26: a recompute run on the cache files a full run wrote gives every
\* player-season the steals, blocks and dpmi the full run gave it.
C26_RecomputeMatchesFull ==
    RecomputedAfterFull =>
        \A i \in DOMAIN run_rows :
            /\ run_rows[i].spg = run_full[i].spg
            /\ run_rows[i].bpg = run_full[i].bpg
            /\ run_rows[i].dpmi = run_full[i].dpmi

\* compute_pmi has scored two rows of a season
LegacySeasonCalled == call_pc = "done" /\ call_fn = "compute_pmi: dpmi"

\* every row of the season's raw frame that has games has no steals and no
\* blocks, and there are at least n such rows
LegacyPopulation(n) ==
    LET played == SelectSeq(call_args.raw, LAMBDA r : r.GP # 0)
    IN  /\ Len(played) >= n
        /\ \A i \in DOMAIN played : Sf(played[i].STL) = Num(0) /\ Sf(played[i].BLK) = Num(0)

\* the league std of steals and blocks is 0 and both rows got the same dpmi
SameLegacyDpmi ==
    /\ call_out.lg["spg"].std = Num(0)
    /\ call_out.lg["bpg"].std = Num(0)
    /\ call_out.first = call_out.second

\* C27: in a season whose raw population rows all have zero steals and zero
\* blocks the league std of both is 0, and two imputed rows that differ only
\* in their imputed steals and blocks get the same dpmi.
C27_LegacyStdZero == LegacySeasonCalled /\ LegacyPopulation(1) => SameLegacyDpmi

\* C27 as amended: the same for a raw population of at least two rows with
\* games played.
C27_LegacyStdZeroOfTwo == LegacySeasonCalled /\ LegacyPopulation(2) => SameLegacyDpmi

C27_Witness ==
    /\ LegacySeasonCalled /\ LegacyPopulation(2)
    /\ call_args.pair[1].spg # call_args.pair[2].spg
    /\ call_args.pair[1].bpg # call_args.pair[2].bpg
    /\ call_out.first = call_out.second
    /\ call_out.first.t = "num" /\ call_out.first.n # 0

\* a player-season has been scored by the generation's engine, and the three
\* scores are numbers
Scored(fns) ==
    /\ call_pc = "done" /\ call_fn \in fns
    /\ call_out.t = "dict"
    /\ IsNum(call_out.pmi) /\ IsNum(call_out.opmi) /\ IsNum(call_out.dpmi)
PmiIsSum == Abs(call_out.pmi.n - (call_out.opmi.n + call_out.dpmi.n)) <= Scale \div 100

\* C28: in every engine generation the combined score returned for a
\* player-season is the sum of the returned offensive and defensive scores,
\* up to 0.01 of rounding.
C28_PmiIsSum ==
    Scored({"compute_pmi: scores", "compute_pmi_season_v2", "compute_pmi_season_v3"})
        => PmiIsSum

\* the same in the batch pipeline (pmi_engine) and in pmi_v2_engine alone
PmiIsSumBefore_v3 == Scored({"compute_pmi: scores", "compute_pmi_season_v2"}) => PmiIsSum

AllRaised == \A i \in DOMAIN api_outcomes : api_outcomes[i] = "raise"

\* C29: the wrapper calls func at most retries times, makes no attempt after
\* a successful one and returns that one's result, returns None exactly if
\* every attempt raised, and ends by returning, never by an exception.
C29_ApiRetries ==
    /\ Len(api_outcomes) <= api_retries
    /\ \A i \in 1..(Len(api_outcomes) - 1) : api_outcomes[i] = "raise"
    /\ api_pc \in {"idle", "enter", "loop", "returned"}
    /\ api_pc # "returned" => api_result = None
    /\ api_pc = "returned" =>
          /\ api_result = None <=> AllRaised
          /\ ~AllRaised => api_result = Result(Len(api_outcomes))

C29_Witness ==
    /\ api_pc = "returned"
    /\ api_retries = MaxRetries
    /\ api_outcomes = <<"raise", "raise", "ok">>
    /\ api_result = Result(3)

\* the merge has run twice on historical files that exist
MergedTwice == Len(mrg_out) = 3 /\ mrg_hist # NoFile
IsSortedByYear(rows) == \A i, j \in DOMAIN rows : i < j => rows[i].year <= rows[j].year
RowsOf(rows, season) == SelectSeq(rows, LAMBDA r : r.season = season)

\* the second run left every player's rows, totals and info and every
\* season-type as the first run had left them; rows of a player the first
\* run added are in the order of their years, which they keep if they had it
SecondRunChangesNothing ==
    LET first == mrg_out[2]
        second == mrg_out[3]
    IN  /\ DOMAIN second.players = DOMAIN first.players
        /\ \A pid \in DOMAIN first.players :
              LET p == first.players[pid]
                  q == second.players[pid]
              IN  /\ q.regular = SortByYear(p.regular)
                  /\ q.playoffs = SortByYear(p.playoffs)
                  /\ IsSortedByYear(p.regular) => q.regular = p.regular
                  /\ IsSortedByYear(p.playoffs) => q.playoffs = p.playoffs
                  /\ q.totals_regular = p.totals_regular
                  /\ q.totals_playoffs = p.totals_playoffs
                  /\ q.info = p.info
        /\ second.sd = first.sd

\* a merge leaves the rows of every (season, stype) pair a player had as
\* they were
NoPairAddedAgain ==
    \A k \in 1..(Len(mrg_out) - 1) :
        \A pid \in DOMAIN mrg_out[k].players :
            LET p == mrg_out[k].players[pid]
                q == mrg_out[k + 1].players[pid]
            IN  /\ \A i \in DOMAIN p.regular :
                      RowsOf(q.regular, p.regular[i].season)
                          = RowsOf(p.regular, p.regular[i].season)
                /\ \A i \in DOMAIN p.playoffs :
                      RowsOf(q.playoffs, p.playoffs[i].season)
                          = RowsOf(p.playoffs, p.playoffs[i].season)

\* the same up to the order of the rows: what the merge leaves when the
\* historical file lists a new player's seasons out of the order of their years
MergeIdempotentUpToOrder == MergedTwice => SecondRunChangesNothing

\* C30: a second run of the merge on its own output and the same historical
\* files changes nothing (no season row is appended again, no season-type is
\* added again, the totals stay equal), and no merge adds to a player a
\* (season, stype) pair the player already had.
C30_MergeIdempotent ==
    /\ MergedTwice => mrg_out[3] = mrg_out[2]
    /\ NoPairAddedAgain

====
